---- MODULE Spec2Model ----
(***************************************************************************)
(* Model of the OpenSooq analyzer backend: the POST /scrape handler, the   *)
(* pagination loop of scrapeOpenSooq, fetchPageWithRetry, the detail       *)
(* workers run by processInBatches and the price aggregation.              *)
(*                                                                         *)
(* Prices are exact decimals stored as integers scaled by PriceScale;      *)
(* floating-point rounding error of the JavaScript numbers is not          *)
(* modelled.  console.log / console.error calls and the pageNumber         *)
(* counter, which only feeds log lines, are left out.                      *)
(***************************************************************************)
EXTENDS Integers, Sequences, FiniteSets, TLC

\* ------------------------------------------------------------------ bounds
NumLinks == 2
NumPageUrls == 2
MaxItemsPerPage == 2
MaxConcurrency == 1
MaxPriceTextLen == 5

\* ------------------------------------------------------- program constants
CONCURRENT_REQUESTS == 5
INITIAL_DELAY == 300
MAX_RETRIES == 3

\* ------------------------------------------------------------ value spaces
Null == -1
NaN == -2
NoError == -1
InvalidUrlError == -3
NotAFunctionError == -4
NetworkError == 0
HttpOk == 200
FailureStatuses == {NetworkError, 404, 429, 500, 502, 503}
Statuses == {HttpOk} \cup FailureStatuses

NoUrl == 0
PageUrls == 1..NumPageUrls
OtherSiteUrl == NumPageUrls + 1
SchemelessUrl == NumPageUrls + 2
NonStringUrl == NumPageUrls + 3
RequestUrls == {NoUrl, OtherSiteUrl, SchemelessUrl, NonStringUrl} \cup PageUrls

NoLink == 0
RecommendedMarker == -1
Links == 1..NumLinks
Tokens == Links \cup {NoLink, RecommendedMarker}

Digits == {"0", "1", "2", "3", "4", "5", "6", "7", "8", "9"}

RECURSIVE Pow10(_)
Pow10(n) == IF n = 0 THEN 1 ELSE 10 * Pow10(n - 1)

PriceScale == Pow10(MaxPriceTextLen)

SeqsUpTo(S, n) == UNION {[1..k -> S] : k \in 0..n}

\* -------------------------------------------------------------- parsePrice
DigitValue(c) ==
  CASE c = "0" -> 0 [] c = "1" -> 1 [] c = "2" -> 2 [] c = "3" -> 3
    [] c = "4" -> 4 [] c = "5" -> 5 [] c = "6" -> 6 [] c = "7" -> 7
    [] c = "8" -> 8 [] c = "9" -> 9

\* length of the run of digits of s that starts at position from
RECURSIVE DigitRun(_, _)
DigitRun(s, from) ==
  IF from > Len(s) \/ s[from] \notin Digits THEN 0
  ELSE 1 + DigitRun(s, from + 1)

\* the number written by the n digits of s that start at position from
RECURSIVE DigitsValue(_, _, _)
DigitsValue(s, from, n) ==
  IF n = 0 THEN 0
  ELSE 10 * DigitsValue(s, from, n - 1) + DigitValue(s[from + n - 1])

\* priceText.replace(/[^\d.]/g, '')
Cleaned(priceText) == SelectSeq(priceText, LAMBDA c : c \in Digits \cup {"."})

\* parseFloat on a string of digits and dots: the longest prefix that is a
\* decimal literal (digits, optionally a dot and digits, at least one digit
\* in all), NaN when there is none.
ParseFloat(s) ==
  LET intLen == DigitRun(s, 1)
      hasDot == intLen < Len(s) /\ s[intLen + 1] = "."
      fracLen == IF hasDot THEN DigitRun(s, intLen + 2) ELSE 0
  IN IF intLen = 0 /\ fracLen = 0 THEN NaN
     ELSE DigitsValue(s, 1, intLen) * PriceScale
          + (DigitsValue(s, intLen + 2, fracLen) * PriceScale) \div Pow10(fracLen)

parsePrice(priceText) ==
  IF priceText = <<>> THEN Null
  ELSE LET price == ParseFloat(Cleaned(priceText))
       IN IF price = NaN THEN Null ELSE price

\* ------------------------------------------------------ fetchPageWithRetry
\* One call of fetchPageWithRetry, the recursion unrolled into a record:
\* pc "request" while an axios.get is outstanding, "backoff" while
\* delay(backoffDelay) is awaited, "returned" / "thrown" when the call is
\* over.  attempts and waits record what the call has done.
NewFetch ==
  [pc |-> "request", retries |-> MAX_RETRIES, delayMs |-> INITIAL_DELAY,
   attempts |-> 0, waits |-> <<>>, error |-> NoError]

\* variant: the fetch is not awaited, it is still in flight when the caller
\* goes on
IdleFetch_InFlight ==
  [pc |-> "request", retries |-> MAX_RETRIES, delayMs |-> INITIAL_DELAY,
   attempts |-> 1, waits |-> <<>>, error |-> NoError]

IdleFetch ==
  [pc |-> "idle", retries |-> MAX_RETRIES, delayMs |-> INITIAL_DELAY,
   attempts |-> 0, waits |-> <<>>, error |-> NoError]

\* variant: every 5xx status counts as transient
IsRetryable_Any5xx(status) ==
  status = 429 \/ status >= 500 \/ status = NetworkError

IsRetryable(status) ==
  status = 429 \/ status = 503 \/ status = 502 \/ status = NetworkError

\* variant: the retry budget is tested with >= instead of >
ShouldRetry_OneMore(retries, status) == retries >= 0 /\ IsRetryable(status)

ShouldRetry(retries, status) == retries > 0 /\ IsRetryable(status)

\* variant: a retry issues the next request without awaiting the delay
FetchResponse_NoBackoff(f, status) ==
  IF status = HttpOk
  THEN [f EXCEPT !.pc = "returned", !.attempts = @ + 1]
  ELSE IF ShouldRetry(f.retries, status)
       THEN [f EXCEPT !.pc = "request", !.attempts = @ + 1, !.retries = @ - 1]
       ELSE [f EXCEPT !.pc = "thrown", !.attempts = @ + 1, !.error = status]

\* the axios.get of the current attempt settles with status
FetchResponse(f, status) ==
  IF status = HttpOk
  THEN [f EXCEPT !.pc = "returned", !.attempts = @ + 1]
  ELSE IF ShouldRetry(f.retries, status)
       THEN [f EXCEPT !.pc = "backoff", !.attempts = @ + 1]
       ELSE [f EXCEPT !.pc = "thrown", !.attempts = @ + 1, !.error = status]

\* a call that has thrown, as its caller sees it: only the error thrown
Settled(f) == [IdleFetch EXCEPT !.pc = f.pc, !.error = f.error]

BackoffDelay(delayMs) == delayMs * 2

\* delay(backoffDelay) is over: the recursive call issues the next request
FetchBackoffDone(f) ==
  LET backoffDelay == BackoffDelay(f.delayMs)
  IN [f EXCEPT !.pc = "request", !.retries = @ - 1, !.delayMs = backoffDelay,
               !.waits = Append(@, backoffDelay)]

\* -------------------------------------------------- extractListingsFromPage
\* The results container of a page is a sequence of tokens: an item element
\* with its resolved href (NoLink when it has none) or the text
\* 'Recommended Listings'.  next is the href of the enabled next-page arrow,
\* NoUrl when the pagination has none.
PageContents ==
  [body : SeqsUpTo(Tokens, MaxItemsPerPage), next : PageUrls \cup {NoUrl}]

EmptyExtraction ==
  [listings |-> <<>>, hasRecommendedListings |-> FALSE, nextPageUrl |-> NoUrl]

\* variant: the content after the marker is kept
extractListingsFromPage_NoCut(content) ==
  LET mainHtml == content.body
      hasRecommendedListings ==
        \E k \in 1..Len(mainHtml) : mainHtml[k] = RecommendedMarker
  IN [listings |-> SelectSeq(mainHtml,
                             LAMBDA t : t # NoLink /\ t # RecommendedMarker),
      hasRecommendedListings |-> hasRecommendedListings,
      nextPageUrl |-> content.next]

extractListingsFromPage(content) ==
  LET mainHtml == content.body
      hasRecommendedListings ==
        \E k \in 1..Len(mainHtml) : mainHtml[k] = RecommendedMarker
      recommendedIndex ==
        CHOOSE k \in 1..Len(mainHtml) :
          /\ mainHtml[k] = RecommendedMarker
          /\ \A j \in 1..(k - 1) : mainHtml[j] # RecommendedMarker
      filteredHtml ==
        IF hasRecommendedListings
        THEN SubSeq(mainHtml, 1, recommendedIndex - 1)
        ELSE mainHtml
  IN [listings |-> SelectSeq(filteredHtml, LAMBDA t : t # NoLink),
      hasRecommendedListings |-> hasRecommendedListings,
      nextPageUrl |-> content.next]

\* variant: seenLinks is only brought up to date after the page's loop
RECURSIVE AddUniqueListings_StaleSeen(_, _, _)
AddUniqueListings_StaleSeen(listings, seen, all) ==
  IF listings = <<>> THEN [seenLinks |-> seen, allListings |-> all]
  ELSE LET listing == Head(listings)
           rest == AddUniqueListings_StaleSeen(Tail(listings), seen,
                     IF listing \notin seen THEN Append(all, listing) ELSE all)
       IN [seenLinks |-> rest.seenLinks \cup {listing},
           allListings |-> rest.allListings]

\* the 'Add unique listings' loop of scrapeOpenSooq
RECURSIVE AddUniqueListings(_, _, _)
AddUniqueListings(listings, seen, all) ==
  IF listings = <<>> THEN [seenLinks |-> seen, allListings |-> all]
  ELSE LET listing == Head(listings)
       IN IF listing \notin seen
          THEN AddUniqueListings(Tail(listings), seen \cup {listing},
                                 Append(all, listing))
          ELSE AddUniqueListings(Tail(listings), seen, all)

\* variant: the next page is fetched without the delay
AfterPage_NoDelay(ex) ==
  IF ex.hasRecommendedListings THEN "callBatches"
  ELSE IF ex.nextPageUrl # NoUrl THEN "fetchPage" ELSE "callBatches"

\* variant: the marker does not break the loop
AfterPage_IgnoreMarker(ex) ==
  IF ex.nextPageUrl # NoUrl THEN "pageDelay" ELSE "callBatches"

\* what the loop does with the extraction of the page it just fetched:
\* break on the marker, else follow nextPageUrl after a delay, else leave
\* ("callBatches": the loop is left and processInBatches is called next)
AfterPage(ex) ==
  IF ex.hasRecommendedListings THEN "callBatches"
  ELSE IF ex.nextPageUrl # NoUrl THEN "pageDelay" ELSE "callBatches"

\* ------------------------------------------------------- scrapeItemDetails
PriceTexts ==
  { <<>>, <<"0">>, <<"0", ".", "4">>, <<"1", "0", ".", "2">> }

NoDetailPage ==
  [loadThrows |-> TRUE, priceText |-> <<>>, description |-> "",
   attributes |-> {}]

\* a detail page as served: loadThrows when the body makes the parsing
\* inside the try block throw
DetailPages ==
  {[loadThrows |-> FALSE, priceText |-> t, description |-> "description",
    attributes |-> {<<"Year", "2020">>}] : t \in PriceTexts}
  \cup {NoDetailPage}

ZeroDetail ==
  [price |-> Null, priceText |-> <<>>, description |-> "", attributes |-> {}]

\* variant: the catch block rethrows
scrapeItemDetails_Rethrow(f, detail) ==
  IF f.pc = "thrown" \/ detail.loadThrows
  THEN [threw |-> TRUE, caught |-> TRUE, details |-> ZeroDetail]
  ELSE [threw |-> FALSE, caught |-> FALSE,
        details |-> [price |-> parsePrice(detail.priceText),
                     priceText |-> detail.priceText,
                     description |-> detail.description,
                     attributes |-> detail.attributes]]

\* the result of scrapeItemDetails once its fetch call f is over and, when
\* it returned, served the page detail.  caught: the catch block ran;
\* threw: the call itself threw
scrapeItemDetails(f, detail) ==
  IF f.pc = "thrown" \/ detail.loadThrows
  THEN [threw |-> FALSE, caught |-> TRUE, details |-> ZeroDetail]
  ELSE [threw |-> FALSE, caught |-> FALSE,
        details |-> [price |-> parsePrice(detail.priceText),
                     priceText |-> detail.priceText,
                     description |-> detail.description,
                     attributes |-> detail.attributes]]

\* the processor passed to processInBatches
MakeItem(link, details) ==
  [link |-> link, price |-> details.price, priceText |-> details.priceText,
   description |-> details.description, attributes |-> details.attributes]

\* --------------------------------------------------------------- aggregate
RECURSIVE SeqSum(_)
SeqSum(s) == IF s = <<>> THEN 0 ELSE Head(s) + SeqSum(Tail(s))

SeqMin(s) == CHOOSE x \in {s[k] : k \in 1..Len(s)} :
               \A k \in 1..Len(s) : x <= s[k]

SeqMax(s) == CHOOSE x \in {s[k] : k \in 1..Len(s)} :
               \A k \in 1..Len(s) : x >= s[k]

\* variant: Math.floor(sum / n)
MathRound_Floor(sum, n) == (sum \div (n * PriceScale)) * PriceScale

\* Math.round(sum / n) for a scaled sum: nearest integer, halves up
MathRound(sum, n) ==
  ((2 * sum + n * PriceScale) \div (2 * n * PriceScale)) * PriceScale

\* variant: the filter only drops null prices
HasPrice_NotNull(item) == item.price # Null

HasPrice(item) == item.price # Null /\ item.price > 0

Aggregate(items) ==
  LET itemsWithPrices == SelectSeq(items, HasPrice)
      prices == [k \in 1..Len(itemsWithPrices) |-> itemsWithPrices[k].price]
  IN [items |-> itemsWithPrices,
      minPrice |-> IF Len(prices) > 0 THEN SeqMin(prices) ELSE Null,
      maxPrice |-> IF Len(prices) > 0 THEN SeqMax(prices) ELSE Null,
      avgPrice |-> IF Len(prices) > 0
                   THEN MathRound(SeqSum(prices), Len(prices)) ELSE Null,
      totalItems |-> Len(itemsWithPrices)]

NoResult ==
  [items |-> <<>>, minPrice |-> Null, maxPrice |-> Null, avgPrice |-> Null,
   totalItems |-> 0]

\* ------------------------------------------------------------------- state
VARIABLES
  pc,              \* where the handler / run is
  response,        \* the HTTP response of the handler
  currentPageUrl,  \* scrapeOpenSooq: currentPageUrl
  allListings,     \* scrapeOpenSooq: allListings (links, in order)
  seenLinks,       \* scrapeOpenSooq: seenLinks
  page,            \* extraction of the page the loop handled last
  pageFetch,       \* the fetchPageWithRetry call of the pagination loop
  pageStatuses,    \* statuses the attempts of that call have received
  extracted,       \* every link any page extraction of the run has yielded
  concurrency,     \* processInBatches: concurrency
  i,               \* processInBatches: i
  results,         \* processInBatches: results
  workers,         \* the processor calls of the current batch
  detailRequests,  \* links whose detail page has been requested
  batchRun,        \* a call of processInBatches with any processor
  calc,            \* a call of one of the pure functions
  app,             \* the state of the client's App component
  runs,            \* two runs of scrapeOpenSooq in one process
  site             \* the result pages a crawled site serves, by url

\* the state of one request and its run
runVars ==
  <<pc, response, currentPageUrl, allListings, seenLinks, page, pageFetch,
    pageStatuses, extracted, concurrency, i, results, workers,
    detailRequests>>

\* the state of the other parts of the model
otherVars == <<batchRun, calc, app, runs, site>>

vars ==
  <<pc, response, currentPageUrl, allListings, seenLinks, page, pageFetch,
    pageStatuses, extracted, concurrency, i, results, workers,
    detailRequests, batchRun, calc, app, runs, site>>

\* values of the parts a specification does not use
NoBatch == [pc |-> "idle"]
NoCalc == [pc |-> "idle"]
NoApp == [pc |-> "idle"]
NoRuns == [pc |-> "idle"]
NoSite == [pc |-> "idle"]

NoResponse == [status |-> 0, error |-> "", cause |-> NoError, result |-> NoResult]

ErrorResponse(status, error, cause) ==
  [status |-> status, error |-> error, cause |-> cause, result |-> NoResult]

NoWorkers == [k \in {} |-> NewFetch]

RunInit ==
  /\ pc = "start"
  /\ response = NoResponse
  /\ currentPageUrl = NoUrl
  /\ allListings = <<>>
  /\ seenLinks = {}
  /\ page = EmptyExtraction
  /\ pageFetch = IdleFetch
  /\ pageStatuses = <<>>
  /\ extracted = {}
  /\ concurrency = CONCURRENT_REQUESTS
  /\ i = 0
  /\ results = <<>>
  /\ workers = NoWorkers
  /\ detailRequests = {}

Init ==
  /\ RunInit
  /\ batchRun = NoBatch
  /\ calc = NoCalc
  /\ app = NoApp
  /\ runs = NoRuns
  /\ site = NoSite

\* -------------------------------------------------- router.post('/scrape')
ContainsOpenSooq(url) == url \in PageUrls \cup {SchemelessUrl}

\* url.includes is not a function when the url of the JSON body is a truthy
\* value that is not a string (a number, true, an object)
IncludesThrows(url) == url = NonStringUrl

\* new URL(url) in getBaseUrl throws on a url without a scheme
getBaseUrlThrows(url) == url = SchemelessUrl

\* variant: the error is swallowed and the run goes on to the detail pages
HandlerCatch_Swallow(cause) == [pc |-> "callBatches", response |-> NoResponse]

\* the catch block of the handler: an error that escapes the run ends the
\* request with a 500 that carries the cause
HandlerCatch(cause) ==
  [pc |-> "responded",
   response |-> ErrorResponse(500, "Failed to scrape the URL", cause)]

\* what the handler answers before it calls scrapeOpenSooq, NoResponse when
\* it goes on to call it
BeforeRun(url) ==
  IF url = NoUrl THEN ErrorResponse(400, "URL is required", NoError)
  ELSE IF IncludesThrows(url) THEN HandlerCatch(NotAFunctionError).response
  ELSE IF ~ContainsOpenSooq(url)
  THEN ErrorResponse(400, "Please provide a valid OpenSooq URL", NoError)
  ELSE NoResponse

\* the handler up to the first await of the run it starts
PostScrape(url) ==
  /\ pc = "start"
  /\ IF BeforeRun(url) # NoResponse
     THEN /\ response' = BeforeRun(url)
          /\ pc' = "responded"
          /\ UNCHANGED <<currentPageUrl, pageFetch>>
     ELSE IF getBaseUrlThrows(url)
     THEN /\ response' = HandlerCatch(InvalidUrlError).response
          /\ pc' = HandlerCatch(InvalidUrlError).pc
          /\ UNCHANGED <<currentPageUrl, pageFetch>>
     ELSE /\ currentPageUrl' = url
          /\ pageFetch' = NewFetch
          /\ pc' = "fetchPage"
          /\ UNCHANGED response
  /\ UNCHANGED <<allListings, seenLinks, page, pageStatuses, extracted,
                 concurrency, i, results, workers, detailRequests>>
  /\ UNCHANGED otherVars

\* ------------------------------------------- scrapeOpenSooq: pagination loop
\* the outstanding request of the page fetch settles; an error the fetch call
\* throws escapes the run and reaches the catch block of the handler
PageFetchResponse(status) ==
  /\ pc = "fetchPage"
  /\ pageFetch.pc = "request"
  /\ LET f == FetchResponse(pageFetch, status)
     IN /\ pageFetch' = f
        /\ pageStatuses' = Append(pageStatuses, status)
        /\ IF f.pc = "thrown"
           THEN /\ response' = HandlerCatch(f.error).response
                /\ pc' = HandlerCatch(f.error).pc
           ELSE UNCHANGED <<pc, response>>
  /\ UNCHANGED <<currentPageUrl, allListings, seenLinks, page, extracted,
                 concurrency, i, results, workers, detailRequests>>
  /\ UNCHANGED otherVars

\* the fetch call has returned the html of the page, content: the loop body
\* runs up to its next await, or leaves the loop
ProcessPage(content) ==
  /\ pc = "fetchPage"
  /\ pageFetch.pc = "returned"
  /\ LET ex == extractListingsFromPage(content)
         merged == AddUniqueListings(ex.listings, seenLinks, allListings)
     IN /\ page' = ex
        /\ seenLinks' = merged.seenLinks
        /\ allListings' = merged.allListings
        /\ extracted' = extracted \cup {ex.listings[k] : k \in 1..Len(ex.listings)}
        /\ currentPageUrl' = IF ex.hasRecommendedListings
                             THEN currentPageUrl ELSE ex.nextPageUrl
        /\ pc' = AfterPage(ex)
  /\ pageFetch' = IdleFetch
  /\ pageStatuses' = <<>>
  /\ UNCHANGED <<response, concurrency, i, results, workers, detailRequests>>
  /\ UNCHANGED otherVars

\* the backoff delay of the page fetch is over
PageFetchBackoff ==
  /\ pc = "fetchPage"
  /\ pageFetch.pc = "backoff"
  /\ pageFetch' = FetchBackoffDone(pageFetch)
  /\ UNCHANGED <<pc, response, currentPageUrl, allListings, seenLinks, page,
                 pageStatuses, extracted, concurrency, i, results, workers,
                 detailRequests>>
  /\ UNCHANGED otherVars

\* delay(500) between two pages is over: the loop fetches currentPageUrl
PageDelay ==
  /\ pc = "pageDelay"
  /\ pc' = "fetchPage"
  /\ page' = EmptyExtraction
  /\ pageFetch' = NewFetch
  /\ pageStatuses' = <<>>
  /\ UNCHANGED <<response, currentPageUrl, allListings, seenLinks, extracted,
                 concurrency, i, results, workers, detailRequests>>
  /\ UNCHANGED otherVars

\* -------------------------------------------------------- processInBatches
Min(a, b) == IF a < b THEN a ELSE b

\* variant: every item that is left, whatever the concurrency
BatchIndexes_AllLeft(n, from, c) == (from + 1)..n

\* positions (1-based) of items.slice(i, i + concurrency)
BatchIndexes(n, from, c) == (from + 1)..Min(from + c, n)

\* The run calls processInBatches on allListings.  It passes
\* CONCURRENT_REQUESTS; so that runs of several batches lie within NumLinks
\* listings, the model also makes the call with each smaller batch size up
\* to MaxConcurrency.  The state of the pagination loop, which nothing reads
\* once the loop is left, is cleared.
Concurrencies == (1..MaxConcurrency) \cup {CONCURRENT_REQUESTS}

CallProcessInBatches(c) ==
  /\ pc = "callBatches"
  /\ concurrency' = c
  /\ i' = 0
  /\ results' = <<>>
  /\ pc' = "batch"
  /\ currentPageUrl' = NoUrl
  /\ page' = EmptyExtraction
  /\ UNCHANGED <<response, allListings, seenLinks, pageFetch, pageStatuses,
                 extracted, workers, detailRequests>>
  /\ UNCHANGED otherVars

\* loop head with i < items.length: every processor call of the batch starts
\* and issues its request
StartChunk ==
  /\ pc = "batch"
  /\ i < Len(allListings)
  /\ LET batch == BatchIndexes(Len(allListings), i, concurrency)
     IN /\ workers' = [k \in batch |->
                         [st |-> "running", fetch |-> NewFetch, caught |-> FALSE,
                          item |-> MakeItem(allListings[k], ZeroDetail)]]
        /\ detailRequests' = detailRequests \cup {allListings[k] : k \in batch}
  /\ pc' = "chunk"
  /\ UNCHANGED <<response, currentPageUrl, allListings, seenLinks, page,
                 pageFetch, pageStatuses, extracted, concurrency, i, results>>
  /\ UNCHANGED otherVars

\* the outstanding request of worker k settles; when its fetch call is over
\* scrapeItemDetails and the processor finish
WorkerResponse(k, status, detail) ==
  /\ pc = "chunk"
  /\ k \in DOMAIN workers
  /\ workers[k].st = "running"
  /\ workers[k].fetch.pc = "request"
  /\ LET f == FetchResponse(workers[k].fetch, status)
         r == scrapeItemDetails(f, detail)
     IN workers' =
          [workers EXCEPT ![k] =
             IF f.pc = "backoff" THEN [@ EXCEPT !.fetch = f]
             ELSE IF r.threw
             THEN [@ EXCEPT !.fetch = Settled(f), !.st = "rejected",
                            !.caught = r.caught]
             ELSE [st |-> "fulfilled", fetch |-> IdleFetch,
                   caught |-> r.caught,
                   item |-> MakeItem(allListings[k], r.details)]]
  /\ UNCHANGED <<pc, response, currentPageUrl, allListings, seenLinks, page,
                 pageFetch, pageStatuses, extracted, concurrency, i, results,
                 detailRequests>>
  /\ UNCHANGED otherVars

\* the backoff delay of worker k is over
WorkerBackoff(k) ==
  /\ pc = "chunk"
  /\ k \in DOMAIN workers
  /\ workers[k].st = "running"
  /\ workers[k].fetch.pc = "backoff"
  /\ workers' = [workers EXCEPT ![k].fetch = FetchBackoffDone(@)]
  /\ UNCHANGED <<pc, response, currentPageUrl, allListings, seenLinks, page,
                 pageFetch, pageStatuses, extracted, concurrency, i, results,
                 detailRequests>>
  /\ UNCHANGED otherVars

\* batchResults in the order of the batch
RECURSIVE BatchResults(_, _, _)
BatchResults(w, from, to) ==
  IF from > to THEN <<>>
  ELSE <<w[from].item>> \o BatchResults(w, from + 1, to)

\* Promise.all settles: rejected as soon as one processor call has thrown,
\* fulfilled when all have returned
ChunkComplete ==
  /\ pc = "chunk"
  /\ IF \E k \in DOMAIN workers : workers[k].st = "rejected"
     THEN /\ response' = ErrorResponse(500, "Failed to scrape the URL",
                           (CHOOSE k \in DOMAIN workers :
                              workers[k].st = "rejected").fetch.error)
          /\ pc' = "responded"
          /\ UNCHANGED <<i, results, workers>>
     ELSE /\ \A k \in DOMAIN workers : workers[k].st = "fulfilled"
          /\ results' = results \o
                BatchResults(workers, i + 1, Min(i + concurrency, Len(allListings)))
          /\ workers' = NoWorkers
          /\ IF i + concurrency < Len(allListings)
             THEN pc' = "batchDelay" /\ UNCHANGED i
             ELSE pc' = "batch" /\ i' = i + concurrency
          /\ UNCHANGED response
  /\ UNCHANGED <<currentPageUrl, allListings, seenLinks, page, pageFetch,
                 pageStatuses, extracted, concurrency, detailRequests>>
  /\ UNCHANGED otherVars

\* delay(delayBetweenBatches) is over: i += concurrency
BatchDelay ==
  /\ pc = "batchDelay"
  /\ i' = i + concurrency
  /\ pc' = "batch"
  /\ UNCHANGED <<response, currentPageUrl, allListings, seenLinks, page,
                 pageFetch, pageStatuses, extracted, concurrency, results,
                 workers, detailRequests>>
  /\ UNCHANGED otherVars

\* loop head with i >= items.length: processInBatches returns, the run
\* filters and aggregates, the handler sends the result
FinishRun ==
  /\ pc = "batch"
  /\ i >= Len(allListings)
  /\ response' = [status |-> 200, error |-> "", cause |-> NoError,
                  result |-> Aggregate(results)]
  /\ pc' = "responded"
  /\ UNCHANGED <<currentPageUrl, allListings, seenLinks, page, pageFetch,
                 pageStatuses, extracted, concurrency, i, results, workers,
                 detailRequests>>
  /\ UNCHANGED otherVars

\* ---------------------------------------------------------- specifications
Next ==
  \/ \E url \in RequestUrls : PostScrape(url)
  \/ \E status \in Statuses : PageFetchResponse(status)
  \/ \E content \in PageContents : ProcessPage(content)
  \/ PageFetchBackoff
  \/ PageDelay
  \/ \E c \in Concurrencies : CallProcessInBatches(c)
  \/ StartChunk
  \/ \E k \in 1..NumLinks, status \in Statuses :
       \E detail \in IF status = HttpOk THEN DetailPages ELSE {NoDetailPage} :
         WorkerResponse(k, status, detail)
  \/ \E k \in 1..NumLinks : WorkerBackoff(k)
  \/ ChunkComplete
  \/ BatchDelay
  \/ FinishRun

Spec == Init /\ [][Next]_vars

\* ------------------------------------ processInBatches, with any processor
\* items.length and concurrency of the calls that are explored
MaxItems == 5
MaxBatchConcurrency == 2

ItemValues == {"a", "b"}

BatchConcurrencies == (1..MaxBatchConcurrency) \cup {CONCURRENT_REQUESTS}

\* processor(item, i + batchIndex): what the call for the item at a 0-based
\* index is fulfilled with
Processor(item, index) == <<item, index>>

\* variant: the results in the order in which the calls were fulfilled
PromiseAll_AsFulfilled(items, from, to, completed) ==
  LET InBatch(p) == p > from /\ p <= to
      order == SelectSeq(completed, InBatch)
  IN [k \in 1..Len(order) |-> Processor(items[order[k]], order[k] - 1)]

\* await Promise.all(batch.map(...)) for the batch at positions from+1..to:
\* the results in the order of the batch, not in the order of fulfilment
PromiseAll(items, from, to, completed) ==
  [k \in 1..(to - from) |-> Processor(items[from + k], from + k - 1)]

\* const results: R[] = []; the loop starts at i = 0
NewBatchRun(items, c) ==
  [pc |-> "loop", items |-> items, concurrency |-> c, i |-> 0,
   results |-> <<>>, running |-> {}, completed |-> <<>>, chunks |-> <<>>,
   delays |-> 0]

InitBatch ==
  /\ RunInit
  /\ \E n \in 0..MaxItems, c \in BatchConcurrencies :
       \E items \in [1..n -> ItemValues] : batchRun = NewBatchRun(items, c)
  /\ calc = NoCalc
  /\ app = NoApp
  /\ runs = NoRuns
  /\ site = NoSite

\* loop head with i < items.length: batch = items.slice(i, i + concurrency)
\* and batch.map starts one processor call per item of it
BatchStart ==
  /\ batchRun.pc = "loop"
  /\ batchRun.i < Len(batchRun.items)
  /\ LET slice == BatchIndexes(Len(batchRun.items), batchRun.i,
                               batchRun.concurrency)
     IN batchRun' = [batchRun EXCEPT !.pc = "await",
                                     !.running = slice,
                                     !.chunks = Append(@, slice)]
  /\ UNCHANGED <<runVars, site, calc, app, runs>>

\* one processor call of the batch is fulfilled
ProcessorFulfilled(k) ==
  /\ batchRun.pc = "await"
  /\ k \in batchRun.running
  /\ batchRun' = [batchRun EXCEPT !.running = @ \ {k},
                                  !.completed = Append(@, k)]
  /\ UNCHANGED <<runVars, site, calc, app, runs>>

\* variant: the delay is awaited after every batch
DelayBetweenBatches_Always(from, c, n) == TRUE

\* if (i + concurrency < items.length) await delay(delayBetweenBatches)
DelayBetweenBatches(from, c, n) == from + c < n

\* Promise.all is fulfilled: results.push(...batchResults), then the test
\* i + concurrency < items.length for the delay
BatchSettled ==
  /\ batchRun.pc = "await"
  /\ batchRun.running = {}
  /\ LET n == Len(batchRun.items)
         to == Min(batchRun.i + batchRun.concurrency, n)
         batchResults == PromiseAll(batchRun.items, batchRun.i, to,
                                    batchRun.completed)
     IN IF DelayBetweenBatches(batchRun.i, batchRun.concurrency, n)
        THEN batchRun' = [batchRun EXCEPT !.pc = "delay",
                                          !.results = @ \o batchResults]
        ELSE batchRun' = [batchRun EXCEPT !.pc = "loop",
                                          !.results = @ \o batchResults,
                                          !.i = @ + batchRun.concurrency]
  /\ UNCHANGED <<runVars, site, calc, app, runs>>

\* await delay(delayBetweenBatches) is over: i += concurrency
BatchDelayElapsed ==
  /\ batchRun.pc = "delay"
  /\ batchRun' = [batchRun EXCEPT !.pc = "loop",
                                  !.delays = @ + 1,
                                  !.i = @ + batchRun.concurrency]
  /\ UNCHANGED <<runVars, site, calc, app, runs>>

\* loop head with i >= items.length: return results
BatchReturn ==
  /\ batchRun.pc = "loop"
  /\ batchRun.i >= Len(batchRun.items)
  /\ batchRun' = [batchRun EXCEPT !.pc = "returned"]
  /\ UNCHANGED <<runVars, site, calc, app, runs>>

NextBatch ==
  \/ BatchStart
  \/ \E k \in 1..MaxItems : ProcessorFulfilled(k)
  \/ BatchSettled
  \/ BatchDelayElapsed
  \/ BatchReturn

SpecBatch == InitBatch /\ [][NextBatch]_vars

\* ------------------------------------------- the price statistics, by call
\* the longest list of items the statistics are computed on
MaxStatItems == 3

\* a call of a pure function: its argument, then what it returned
NewCall(fn, arg) == [pc |-> "call", fn |-> fn, arg |-> arg, out |-> Null]

Returned(call, out) == [call EXCEPT !.pc = "returned", !.out = out]

\* item.price of the items handed to the filter of line 297: null, 0, 0.4,
\* 0.5, 1, 2, 10, 20 and 30
StatPrices ==
  {Null, 0, (4 * PriceScale) \div 10, (5 * PriceScale) \div 10}
    \cup {k * PriceScale : k \in {1, 2, 10, 20, 30}}

\* the items of a processInBatches result with these prices, in order
ItemsWithPriceList(prices) ==
  [k \in 1..Len(prices) |-> MakeItem(k, [ZeroDetail EXCEPT !.price = prices[k]])]

InitStats ==
  /\ RunInit
  /\ batchRun = NoBatch
  /\ \E prices \in SeqsUpTo(StatPrices, MaxStatItems) :
       calc = NewCall("aggregate", ItemsWithPriceList(prices))
  /\ app = NoApp
  /\ runs = NoRuns
  /\ site = NoSite

\* lines 297-313 of scrapeOpenSooq on the items
CallAggregate ==
  /\ calc.pc = "call"
  /\ calc.fn = "aggregate"
  /\ calc' = Returned(calc, Aggregate(calc.arg))
  /\ UNCHANGED <<runVars, site, batchRun, app, runs>>

NextStats == CallAggregate

SpecStats == InitStats /\ [][NextStats]_vars

\* ---------------------------------------------------- parsePrice, by call
\* the longest price text parsePrice is called on
MaxPriceStringLen == 3

\* the characters of those texts: digits, dot, comma, minus, a letter, space
PriceChars == {"0", "1", ".", ",", "-", "J", " "}

InitParse ==
  /\ RunInit
  /\ batchRun = NoBatch
  /\ \E priceText \in SeqsUpTo(PriceChars, MaxPriceStringLen) :
       calc = NewCall("parsePrice", priceText)
  /\ app = NoApp
  /\ runs = NoRuns
  /\ site = NoSite

CallParsePrice ==
  /\ calc.pc = "call"
  /\ calc.fn = "parsePrice"
  /\ calc' = Returned(calc, parsePrice(calc.arg))
  /\ UNCHANGED <<runVars, site, batchRun, app, runs>>

NextParse == CallParsePrice

SpecParse == InitParse /\ [][NextParse]_vars

\* ------------------------------------------------ detectOutliers, by call
\* the longest item list detectOutliers is called on
MaxOutlierItems == 5

\* item.price of those items: null, 0, 1, 2, 3, 5 and 300
OutlierPrices == {Null, 0} \cup {k * PriceScale : k \in {1, 2, 3, 5, 300}}

\* sortedPrices: prices.sort((a, b) => a - b)
RECURSIVE SortAscending(_)
SortAscending(s) ==
  IF s = <<>> THEN <<>>
  ELSE LET k == CHOOSE a \in 1..Len(s) : \A b \in 1..Len(s) : s[a] <= s[b]
       IN <<s[k]>> \o SortAscending(SubSeq(s, 1, k - 1) \o SubSeq(s, k + 1, Len(s)))

\* Math.floor(sortedPrices.length * 0.25)
Q1Index(n) == n \div 4

\* variant: the last index
Q3Index_Last(n) == n - 1

\* Math.floor(sortedPrices.length * 0.75)
Q3Index(n) == (3 * n) \div 4

\* variant: a price on a bound is an outlier too
IsOutlier_Inclusive(price, lowerBound, upperBound) ==
  price <= lowerBound \/ price >= upperBound

\* price < lowerBound || price > upperBound
IsOutlier(price, lowerBound, upperBound) ==
  price < lowerBound \/ price > upperBound

\* the set of links detectOutliers returns; indexes of the code are 0-based
detectOutliers(items) ==
  LET prices == SelectSeq(items, LAMBDA item : item.price # Null /\ item.price > 0)
  IN IF Len(prices) < 4 THEN {}
     ELSE LET sortedPrices == SortAscending([k \in 1..Len(prices) |-> prices[k].price])
              q1 == sortedPrices[Q1Index(Len(sortedPrices)) + 1]
              q3 == sortedPrices[Q3Index(Len(sortedPrices)) + 1]
              iqr == q3 - q1
              lowerBound == q1 - 2 * iqr
              upperBound == q3 + 2 * iqr
          IN {prices[k].link : k \in {j \in 1..Len(prices) :
                                        IsOutlier(prices[j].price, lowerBound, upperBound)}}

InitOutliers ==
  /\ RunInit
  /\ batchRun = NoBatch
  /\ \E prices \in SeqsUpTo(OutlierPrices, MaxOutlierItems) :
       calc = NewCall("detectOutliers", ItemsWithPriceList(prices))
  /\ app = NoApp
  /\ runs = NoRuns
  /\ site = NoSite

CallDetectOutliers ==
  /\ calc.pc = "call"
  /\ calc.fn = "detectOutliers"
  /\ calc' = Returned(calc, detectOutliers(calc.arg))
  /\ UNCHANGED <<runVars, site, batchRun, app, runs>>

NextOutliers == CallDetectOutliers

SpecOutliers == InitOutliers /\ [][NextOutliers]_vars

\* ------------------------------------------------------- the client's App
\* the longest data.items the client receives
MaxAppItems == 4

\* prices of the items of a result: 1, 2 and 30
AppPrices == {k * PriceScale : k \in {1, 2, 30}}

\* the results the server can answer with: items with unique links and
\* positive prices, and their statistics
AppResults ==
  {Aggregate(ItemsWithPriceList(prices)) :
     prices \in SeqsUpTo(AppPrices, MaxAppItems)}

\* the selectable values of filters['_priceRange'], "min-max" as the pair
\* of its numbers: "0-2" and "3-0"
PriceRanges == {<<0, 2>>, <<3, 0>>}

\* the messages setError can receive
ErrorMessages == {"Failed to fetch data", "Failed to scrape the URL"}

\* null as the value of data and of error
NullData == [null |-> TRUE]

NullError == "null"

\* the useState initial values
NewApp ==
  [pc |-> "mounted", loading |-> FALSE, error |-> NullError, data |-> NullData,
   filters |-> {}, excludedItems |-> {}, autoExcludeOutliers |-> TRUE]

\* useMemo detectedOutliers
detectedOutliers(a) ==
  IF a.data = NullData \/ ~a.autoExcludeOutliers THEN {}
  ELSE detectOutliers(a.data.items)

\* the price range test of filteredItems: a bound that is 0 does not bind
MatchesAnyRange(price, ranges) ==
  \E range \in ranges :
    /\ ~(range[1] # 0 /\ price < range[1] * PriceScale)
    /\ ~(range[2] # 0 /\ price > range[2] * PriceScale)

\* variant: the excluded items are dropped from the list
filteredItems_DropExcluded(a) ==
  IF a.data = NullData THEN <<>>
  ELSE SelectSeq(a.data.items,
                 LAMBDA item :
                   /\ item.link \notin a.excludedItems
                   /\ item.link \notin detectedOutliers(a)
                   /\ a.filters # {} =>
                        /\ item.price # Null
                        /\ MatchesAnyRange(item.price, a.filters))

\* useMemo filteredItems, with the price range filter as the only filter set
filteredItems(a) ==
  IF a.data = NullData THEN <<>>
  ELSE SelectSeq(a.data.items,
                 LAMBDA item :
                   a.filters # {} =>
                     /\ item.price # Null
                     /\ MatchesAnyRange(item.price, a.filters))

\* useMemo itemsForStats
itemsForStats(a) ==
  SelectSeq(filteredItems(a),
            LAMBDA item : /\ item.link \notin a.excludedItems
                          /\ item.link \notin detectedOutliers(a))

\* variant: the mean is rounded down
priceStats_FloorMean(a) ==
  LET given == [k \in 1..Len(itemsForStats(a)) |-> itemsForStats(a)[k].price]
      prices == SelectSeq(given, LAMBDA p : p # Null /\ p > 0)
  IN IF Len(prices) = 0
     THEN [minPrice |-> Null, maxPrice |-> Null, avgPrice |-> Null]
     ELSE [minPrice |-> SeqMin(prices), maxPrice |-> SeqMax(prices),
           avgPrice |-> MathRound_Floor(SeqSum(prices), Len(prices))]

\* useMemo priceStats
priceStats(a) ==
  LET given == [k \in 1..Len(itemsForStats(a)) |-> itemsForStats(a)[k].price]
      prices == SelectSeq(given, LAMBDA p : p # Null /\ p > 0)
  IN IF Len(prices) = 0
     THEN [minPrice |-> Null, maxPrice |-> Null, avgPrice |-> Null]
     ELSE [minPrice |-> SeqMin(prices), maxPrice |-> SeqMax(prices),
           avgPrice |-> MathRound(SeqSum(prices), Len(prices))]

InitApp ==
  /\ RunInit
  /\ batchRun = NoBatch
  /\ calc = NoCalc
  /\ app = NewApp
  /\ runs = NoRuns
  /\ site = NoSite

\* variant: handleSubmit without setError(null)
HandleSubmit_KeepError ==
  /\ app.pc = "mounted"
  /\ ~app.loading
  /\ app' = [app EXCEPT !.loading = TRUE, !.data = NullData,
                        !.filters = {}, !.excludedItems = {}]
  /\ UNCHANGED <<runVars, site, batchRun, calc, runs>>

\* handleSubmit up to its await; the button is disabled while loading
HandleSubmit ==
  /\ app.pc = "mounted"
  /\ ~app.loading
  /\ app' = [app EXCEPT !.loading = TRUE, !.error = NullError, !.data = NullData,
                        !.filters = {}, !.excludedItems = {}]
  /\ UNCHANGED <<runVars, site, batchRun, calc, runs>>

\* the request succeeds: setData(result), then finally setLoading(false)
SubmitSucceeds(result) ==
  /\ app.pc = "mounted"
  /\ app.loading
  /\ app' = [app EXCEPT !.data = result, !.loading = FALSE]
  /\ UNCHANGED <<runVars, site, batchRun, calc, runs>>

\* a response that is not ok, or a failure of fetch or of response.json():
\* the catch block does setError, then finally setLoading(false)
SubmitFails(message) ==
  /\ app.pc = "mounted"
  /\ app.loading
  /\ app' = [app EXCEPT !.error = message, !.loading = FALSE]
  /\ UNCHANGED <<runVars, site, batchRun, calc, runs>>

\* handleFilterChange('_priceRange', values); the controls below are
\* rendered when data && !loading
HandleFilterChange(values) ==
  /\ app.pc = "mounted"
  /\ app.data # NullData /\ ~app.loading
  /\ app' = [app EXCEPT !.filters = values]
  /\ UNCHANGED <<runVars, site, batchRun, calc, runs>>

HandleClearFilters ==
  /\ app.pc = "mounted"
  /\ app.data # NullData /\ ~app.loading
  /\ app' = [app EXCEPT !.filters = {}]
  /\ UNCHANGED <<runVars, site, batchRun, calc, runs>>

\* the exclude button of a row of the table, which shows filteredItems
HandleToggleExclude(link) ==
  /\ app.pc = "mounted"
  /\ app.data # NullData /\ ~app.loading
  /\ link \in {filteredItems(app)[k].link : k \in 1..Len(filteredItems(app))}
  /\ app' = [app EXCEPT !.excludedItems =
                          IF link \in @ THEN @ \ {link} ELSE @ \cup {link}]
  /\ UNCHANGED <<runVars, site, batchRun, calc, runs>>

\* the checkbox: setAutoExcludeOutliers(e.target.checked)
SetAutoExcludeOutliers(checked) ==
  /\ app.pc = "mounted"
  /\ app.data # NullData /\ ~app.loading
  /\ checked # app.autoExcludeOutliers
  /\ app' = [app EXCEPT !.autoExcludeOutliers = checked]
  /\ UNCHANGED <<runVars, site, batchRun, calc, runs>>

NextApp ==
  \/ HandleSubmit
  \/ \E result \in AppResults : SubmitSucceeds(result)
  \/ \E message \in ErrorMessages : SubmitFails(message)
  \/ \E values \in SUBSET PriceRanges : HandleFilterChange(values)
  \/ HandleClearFilters
  \/ \E link \in 1..MaxAppItems : HandleToggleExclude(link)
  \/ \E checked \in BOOLEAN : SetAutoExcludeOutliers(checked)

SpecApp == InitApp /\ [][NextApp]_vars

\* ----------------------------- scrapeItemDetails: full-row attribute values
\* the longest text of a p.width-75 element
MaxValueTextLen == 4

ValueChars == {"a", "b", ",", " "}

\* the labels of the fields: none, an ordinary one, and the one the second
\* pass skips
FieldKeys == {"", "Interior Options", "VIN Number"}

\* String.prototype.trim, the white space being the space
RECURSIVE TrimStart(_)
TrimStart(s) ==
  IF s # <<>> /\ Head(s) = " " THEN TrimStart(Tail(s)) ELSE s

RECURSIVE TrimEnd(_)
TrimEnd(s) ==
  IF s # <<>> /\ s[Len(s)] = " " THEN TrimEnd(SubSeq(s, 1, Len(s) - 1)) ELSE s

Trim(s) == TrimEnd(TrimStart(s))

\* valueText.split(',')
RECURSIVE SplitOnComma(_)
SplitOnComma(s) ==
  LET commas == {k \in 1..Len(s) : s[k] = ","}
  IN IF commas = {} THEN <<s>>
     ELSE LET first == CHOOSE k \in commas : \A j \in commas : k <= j
          IN <<SubSeq(s, 1, first - 1)>>
               \o SplitOnComma(SubSeq(s, first + 1, Len(s)))

\* variant: values.length > 0 ? values : valueText
FullRowValue_OnePiece(valueText) ==
  LET pieces == SplitOnComma(valueText)
      trimmed == [k \in 1..Len(pieces) |-> Trim(pieces[k])]
      values == SelectSeq(trimmed, LAMBDA v : v # <<>>)
  IN IF Len(values) > 0
     THEN [isArray |-> TRUE, values |-> values, text |-> <<>>]
     ELSE [isArray |-> FALSE, values |-> <<>>, text |-> valueText]

\* valueText.split(',').map(v => v.trim()).filter(v => v), then
\* values.length > 1 ? values : valueText: an array of pieces or a string
FullRowValue(valueText) ==
  LET pieces == SplitOnComma(valueText)
      trimmed == [k \in 1..Len(pieces) |-> Trim(pieces[k])]
      values == SelectSeq(trimmed, LAMBDA v : v # <<>>)
  IN IF Len(values) > 1
     THEN [isArray |-> TRUE, values |-> values, text |-> <<>>]
     ELSE [isArray |-> FALSE, values |-> <<>>, text |-> valueText]

\* attributes[key] = value
SetAttribute(attributes, key, value) ==
  [k \in DOMAIN attributes \cup {key} |->
     IF k = key THEN value ELSE attributes[k]]

\* the full-row branch of the first pass, on a field with this label and
\* this p.width-75 text
FirstPassFullRow(attributes, key, text) ==
  LET valueText == Trim(text)
  IN IF valueText # <<>>
     THEN SetAttribute(attributes, key, FullRowValue(valueText))
     ELSE attributes

\* the second pass on a li.fullRow with this label and this p.width-75 text
SecondPassFullRow(attributes, key, text) ==
  LET valueText == Trim(text)
  IN IF key # "" /\ valueText # <<>> /\ key # "VIN Number"
     THEN SetAttribute(attributes, key, FullRowValue(valueText))
     ELSE attributes

\* const attributes = {}
NoAttributes == [k \in {} |-> <<>>]

InitFullRow ==
  /\ RunInit
  /\ batchRun = NoBatch
  /\ \E pass \in {"first", "second"}, key \in FieldKeys :
       \E text \in SeqsUpTo(ValueChars, MaxValueTextLen) :
         calc = NewCall("fullRow", [pass |-> pass, key |-> key, text |-> text])
  /\ app = NoApp
  /\ runs = NoRuns
  /\ site = NoSite

CallFirstPassFullRow ==
  /\ calc.pc = "call"
  /\ calc.fn = "fullRow"
  /\ calc.arg.pass = "first"
  /\ calc' = Returned(calc, FirstPassFullRow(NoAttributes, calc.arg.key,
                                             calc.arg.text))
  /\ UNCHANGED <<runVars, site, batchRun, app, runs>>

CallSecondPassFullRow ==
  /\ calc.pc = "call"
  /\ calc.fn = "fullRow"
  /\ calc.arg.pass = "second"
  /\ calc' = Returned(calc, SecondPassFullRow(NoAttributes, calc.arg.key,
                                              calc.arg.text))
  /\ UNCHANGED <<runVars, site, batchRun, app, runs>>

NextFullRow ==
  \/ CallFirstPassFullRow
  \/ CallSecondPassFullRow

SpecFullRow == InitFullRow /\ [][NextFullRow]_vars

\* ---------------------------------------- extractListingsFromPage, by call
\* the longest results container extractListingsFromPage is called on
MaxPageTokens == 4

InitExtract ==
  /\ RunInit
  /\ batchRun = NoBatch
  /\ \E body \in SeqsUpTo(Tokens, MaxPageTokens), next \in PageUrls \cup {NoUrl} :
       calc = NewCall("extractListingsFromPage", [body |-> body, next |-> next])
  /\ app = NoApp
  /\ runs = NoRuns
  /\ site = NoSite

CallExtractListingsFromPage ==
  /\ calc.pc = "call"
  /\ calc.fn = "extractListingsFromPage"
  /\ calc' = Returned(calc, extractListingsFromPage(calc.arg))
  /\ UNCHANGED <<runVars, site, batchRun, app, runs>>

NextExtract == CallExtractListingsFromPage

SpecExtract == InitExtract /\ [][NextExtract]_vars

\* ---------------------------------------- two runs of scrapeOpenSooq at once
\* Each call of scrapeOpenSooq creates its own allListings and seenLinks;
\* the module keeps no state between calls.  Next to the state of each run
\* the model keeps what the same pages and details give to a run that is
\* the only one (alone, aloneResult), and the links its pages have yielded.
RunIds == {1, 2}

\* the pages served to the two runs: at most one token, with or without a
\* next page
RunPageContents == [body : SeqsUpTo(Tokens, 1), next : {NoUrl, 1}]

\* the price each detail page gives: none or 1
RunDetailPrices == [Links -> {Null, PriceScale}]

\* lines 232-236: the locals of a call
NewRun ==
  [pc |-> "pages", allListings |-> <<>>, seenLinks |-> {}, extracted |-> {},
   alone |-> [seenLinks |-> {}, allListings |-> <<>>],
   result |-> NoResult, aloneResult |-> NoResult]

\* variant: one seenLinks for the whole module
SeenLinksOf_Shared(rs, r) == UNION {rs[q].seenLinks : q \in DOMAIN rs}

\* the seenLinks that the loop of run r reads
SeenLinksOf(rs, r) == rs[r].seenLinks

\* the items of a run once every detail worker is done
DetailedItems(listings, prices) ==
  [k \in 1..Len(listings) |->
     MakeItem(listings[k], [ZeroDetail EXCEPT !.price = prices[listings[k]]])]

InitTwoRuns ==
  /\ RunInit
  /\ batchRun = NoBatch
  /\ calc = NoCalc
  /\ app = NoApp
  /\ runs = [r \in RunIds |-> NewRun]
  /\ site = NoSite

\* run r has fetched a page: extraction, merge, and the test to go on
RunProcessPage(r, content) ==
  /\ runs[r].pc = "pages"
  /\ LET ex == extractListingsFromPage(content)
         merged == AddUniqueListings(ex.listings, SeenLinksOf(runs, r),
                                     runs[r].allListings)
         alone == AddUniqueListings(ex.listings, runs[r].alone.seenLinks,
                                    runs[r].alone.allListings)
     IN runs' = [runs EXCEPT ![r] =
                   [@ EXCEPT !.allListings = merged.allListings,
                             !.seenLinks = merged.seenLinks,
                             !.extracted =
                               @ \cup {ex.listings[k] : k \in 1..Len(ex.listings)},
                             !.alone = alone,
                             !.pc = IF AfterPage(ex) = "callBatches"
                                    THEN "details" ELSE "pages"]]
  /\ UNCHANGED <<runVars, site, batchRun, calc, app>>

\* the detail phase of run r is over: filter, statistics, return
RunReturns(r, prices) ==
  /\ runs[r].pc = "details"
  /\ runs' = [runs EXCEPT ![r] =
                [@ EXCEPT !.pc = "returned",
                          !.result =
                            Aggregate(DetailedItems(runs[r].allListings, prices)),
                          !.aloneResult =
                            Aggregate(DetailedItems(runs[r].alone.allListings,
                                                    prices))]]
  /\ UNCHANGED <<runVars, site, batchRun, calc, app>>

NextTwoRuns ==
  \/ \E r \in RunIds, content \in RunPageContents : RunProcessPage(r, content)
  \/ \E r \in RunIds, prices \in RunDetailPrices : RunReturns(r, prices)

SpecTwoRuns == InitTwoRuns /\ [][NextTwoRuns]_vars

\* ------------------------------------------- router.post('/scrape'), by call
\* how the run a request starts ends: it returns a result or throws the
\* error of a page fetch
RunOutcomes ==
  {[threw |-> FALSE, cause |-> NoError,
    result |-> Aggregate(ItemsWithPriceList(prices))] :
     prices \in SeqsUpTo(StatPrices, MaxStatItems)}
  \cup {[threw |-> TRUE, cause |-> status, result |-> NoResult] :
          status \in FailureStatuses}

\* the handler on a request with this url, the run it may start ending with
\* this outcome: the response it sends and the number of calls of
\* scrapeOpenSooq
HandleScrape(url, outcome) ==
  IF BeforeRun(url) # NoResponse
  THEN [response |-> BeforeRun(url), runs |-> 0]
  ELSE IF getBaseUrlThrows(url)
  THEN [response |-> HandlerCatch(InvalidUrlError).response, runs |-> 1]
  ELSE IF outcome.threw
  THEN [response |-> HandlerCatch(outcome.cause).response, runs |-> 1]
  ELSE [response |-> [status |-> 200, error |-> "", cause |-> NoError,
                      result |-> outcome.result],
        runs |-> 1]

InitHandler ==
  /\ RunInit
  /\ batchRun = NoBatch
  /\ \E url \in RequestUrls, outcome \in RunOutcomes :
       calc = NewCall("postScrape", [url |-> url, outcome |-> outcome])
  /\ app = NoApp
  /\ runs = NoRuns
  /\ site = NoSite

CallHandleScrape ==
  /\ calc.pc = "call"
  /\ calc.fn = "postScrape"
  /\ calc' = Returned(calc, HandleScrape(calc.arg.url, calc.arg.outcome))
  /\ UNCHANGED <<runVars, site, batchRun, app, runs>>

NextHandler == CallHandleScrape

SpecHandler == InitHandler /\ [][NextHandler]_vars

\* ------------------------------- the pagination loop on a site, to its end
\* what the pages of a crawled site hold, and the statuses its server
\* answers with: success, a fatal failure and a transient one
CrawlBodies == {<<>>, <<1>>, <<1, RecommendedMarker>>}
CrawlStatuses == {HttpOk, 404, 503}

\* a site serves the same content whenever one of its urls is fetched
Sites == [PageUrls -> [body : CrawlBodies, next : PageUrls \cup {NoUrl}]]

InitCrawl ==
  /\ RunInit
  /\ batchRun = NoBatch
  /\ calc = NoCalc
  /\ app = NoApp
  /\ runs = NoRuns
  /\ site \in Sites

\* the page fetch has returned what the site serves at currentPageUrl
CrawlPage ==
  /\ currentPageUrl \in PageUrls
  /\ ProcessPage(site[currentPageUrl])

\* the request and the pagination loop of its run, every await of which
\* is eventually over
NextCrawl ==
  \/ \E url \in PageUrls : PostScrape(url)
  \/ \E status \in CrawlStatuses : PageFetchResponse(status)
  \/ CrawlPage
  \/ PageFetchBackoff
  \/ PageDelay

SpecCrawl == InitCrawl /\ [][NextCrawl]_vars /\ WF_vars(NextCrawl)

\* ------------------------- the attributes of a detail page, the two passes
\* the most elements of a detail page that one of the passes selects
MaxFields == 2

\* an element is selected by the first pass (its data-id starts with
\* singeInfoField_), by the second pass (li.fullRow) or by both; the first
\* pass reads one that is not a li.fullRow as a full row when it has the
\* class fullRow or a p.width-75, as a regular pair otherwise
ElementKinds == {"regular", "fullRowField", "liField", "liOnly"}

\* the text of the p.width-75 of a full row, of the bold a or span of a
\* regular pair
AttributeTexts == {<<>>, <<"a">>, <<"a", ",", "b">>}

Elements == [kind : ElementKinds, key : FieldKeys, text : AttributeTexts]

\* the regular branch of the first pass: if (key && value)
FirstPassRegular(attributes, key, text) ==
  LET value == Trim(text)
  IN IF key # "" /\ value # <<>>
     THEN SetAttribute(attributes, key,
                       [isArray |-> FALSE, values |-> <<>>, text |-> value])
     ELSE attributes

\* $('[data-id^="singeInfoField_"]').each(...), in document order
RECURSIVE FirstPass(_, _)
FirstPass(attributes, elements) ==
  IF elements = <<>> THEN attributes
  ELSE LET el == Head(elements)
           after ==
             IF el.kind = "liOnly" THEN attributes
             ELSE IF el.kind = "regular"
                  THEN FirstPassRegular(attributes, el.key, el.text)
                  ELSE FirstPassFullRow(attributes, el.key, el.text)
       IN FirstPass(after, Tail(elements))

\* $('li.fullRow').each(...), in document order
RECURSIVE SecondPass(_, _)
SecondPass(attributes, elements) ==
  IF elements = <<>> THEN attributes
  ELSE LET el == Head(elements)
           after ==
             IF el.kind \in {"liField", "liOnly"}
             THEN SecondPassFullRow(attributes, el.key, el.text)
             ELSE attributes
       IN SecondPass(after, Tail(elements))

InitAttributes ==
  /\ RunInit
  /\ batchRun = NoBatch
  /\ \E elements \in SeqsUpTo(Elements, MaxFields) :
       calc = NewCall("attributes", elements)
  /\ app = NoApp
  /\ runs = NoRuns
  /\ site = NoSite

\* the first pass is over: out.first keeps what it has stored
AttributesFirstPass ==
  /\ calc.pc = "call"
  /\ calc.fn = "attributes"
  /\ LET first == FirstPass(NoAttributes, calc.arg)
     IN calc' = [calc EXCEPT !.pc = "secondPass",
                             !.out = [first |-> first, attributes |-> first]]
  /\ UNCHANGED <<runVars, site, batchRun, app, runs>>

\* the second pass is over: scrapeItemDetails returns the attributes
AttributesSecondPass ==
  /\ calc.pc = "secondPass"
  /\ calc' = [calc EXCEPT !.pc = "returned",
                          !.out.attributes = SecondPass(@, calc.arg)]
  /\ UNCHANGED <<runVars, site, batchRun, app, runs>>

NextAttributes ==
  \/ AttributesFirstPass
  \/ AttributesSecondPass

SpecAttributes == InitAttributes /\ [][NextAttributes]_vars

\* ------------------------------------------------------------ properties
Range(s) == {s[k] : k \in 1..Len(s)}

RetryableStatuses == {NetworkError, 429, 502, 503}

\* C1: in every result a run returns, min <= avg <= max when totalItems > 0,
\* and min, avg and max are all null exactly when totalItems = 0
C1_MinAvgMaxOrdered ==
  response.status = 200 =>
    LET r == response.result
    IN /\ r.totalItems > 0 =>
            r.minPrice <= r.avgPrice /\ r.avgPrice <= r.maxPrice
       /\ (r.minPrice = Null /\ r.avgPrice = Null /\ r.maxPrice = Null)
            <=> r.totalItems = 0

\* C2: every item of a result has a non-null, strictly positive price,
\* totalItems is the number of items, and a listing whose detail gave a
\* null, zero or negative price is neither in items nor in min/avg/max
C2_OnlyPositivePrices ==
  response.status = 200 =>
    LET r == response.result
        kept == {k \in 1..Len(results) :
                   results[k].price # Null /\ results[k].price > 0}
    IN /\ \A k \in 1..Len(r.items) :
            r.items[k].price # Null /\ r.items[k].price > 0
       /\ r.totalItems = Len(r.items)
       /\ r.totalItems = Cardinality(kept)
       /\ \A k \in 1..Len(results) :
            k \notin kept => results[k].link \notin {it.link : it \in Range(r.items)}
       /\ r.totalItems > 0 =>
            /\ r.minPrice \in {results[k].price : k \in kept}
            /\ r.maxPrice \in {results[k].price : k \in kept}
            /\ r.avgPrice >= 0

C2_Witness ==
  /\ response.status = 200
  /\ response.result.totalItems = 1
  /\ \E k \in 1..Len(results) : results[k].price = 0

\* C3: the accumulated listing list never holds an identity twice and holds
\* exactly the identities extracted so far; the items of a result have
\* unique identities
C3_UniqueIdentities ==
  /\ \A a, b \in 1..Len(allListings) : a # b => allListings[a] # allListings[b]
  /\ Range(allListings) = extracted
  /\ \A a, b \in 1..Len(response.result.items) :
       a # b => response.result.items[a].link # response.result.items[b].link

\* the page handled last repeats, twice, an identity an earlier page gave
C3_Witness ==
  /\ Len(page.listings) = 2
  /\ page.listings[1] = page.listings[2]
  /\ Len(allListings) = 2
  /\ allListings[1] = page.listings[1]

MarkerPageIsLast ==
  page.hasRecommendedListings =>
    /\ pc \notin {"fetchPage", "pageDelay"}
    /\ Range(page.listings) \subseteq Range(allListings)

NoPageFetchAfterLoop ==
  pc \in {"callBatches", "batch", "chunk", "batchDelay", "responded"} =>
    /\ pc' \notin {"fetchPage", "pageDelay"}
    /\ pageFetch'.pc \in {"idle", pageFetch.pc}

\* C4: a page whose extraction reports the marker ends pagination, whatever
\* its nextPageUrl, with its listings merged; no result page is fetched
\* once the loop is left
C4_MarkerStopsPagination == []MarkerPageIsLast /\ [][NoPageFetchAfterLoop]_vars

C4_Witness ==
  /\ pc = "callBatches"
  /\ page.hasRecommendedListings
  /\ page.nextPageUrl # NoUrl
  /\ page.listings # <<>>

\* C5: a detail worker never throws: it is always fulfilled, with the
\* zero-value detail whenever its fetch threw or its catch block ran, and
\* a run that has requested detail pages goes on, batch after batch, to a
\* result that has one item per listing
C5_DetailNeverFails ==
  /\ \A k \in DOMAIN workers :
       /\ workers[k].st # "rejected"
       /\ (workers[k].st = "fulfilled" /\ workers[k].caught) =>
            /\ workers[k].item.price = Null
            /\ workers[k].item.priceText = <<>>
            /\ workers[k].item.description = ""
            /\ workers[k].item.attributes = {}
  /\ (pc = "responded" /\ detailRequests # {}) =>
       /\ response.status = 200
       /\ Len(results) = Len(allListings)
       /\ \A k \in 1..Len(results) : results[k].link = allListings[k]

\* one listing per batch: the first failed, the batch after it went on
C5_Witness ==
  /\ pc = "responded"
  /\ concurrency = 1
  /\ Len(results) = 2
  /\ results[1].description = ""
  /\ results[2].price > 0

\* C6: a result page fetch that fails after its retries fails the run: the
\* response is an error without a result, nothing accumulated is returned
\* and no detail page is requested
C6_PageFailureFailsRun ==
  pageFetch.pc = "thrown" =>
    /\ pc = "responded"
    /\ response.status = 500
    /\ response.cause = pageFetch.error
    /\ response.result = NoResult
    /\ detailRequests = {}
    /\ results = <<>>
    /\ workers = NoWorkers

\* a later page failed after an earlier page had given listings
C6_Witness ==
  /\ pageFetch.pc = "thrown"
  /\ allListings # <<>>

\* C7: one fetch call makes at most 4 attempts; 4 retryable failures make it
\* fail with the error of the last attempt; a success ends it at once
C7_AtMostFourAttempts ==
  pageFetch.pc # "idle" =>
    /\ pageFetch.attempts <= 4
    /\ Len(pageStatuses) = pageFetch.attempts
    /\ (Len(pageStatuses) = 4 /\ Range(pageStatuses) \subseteq RetryableStatuses) =>
         pageFetch.pc = "thrown" /\ pageFetch.error = pageStatuses[4]
    /\ \A k \in 1..Len(pageStatuses) :
         pageStatuses[k] = HttpOk =>
           k = Len(pageStatuses) /\ pageFetch.pc = "returned"

C7_Witness ==
  /\ pageFetch.pc = "thrown"
  /\ pageStatuses = <<503, 429, NetworkError, 502>>

\* C8: an attempt is followed by a retry only when it failed with no
\* response or with 429, 502 or 503; any other failure status ends the call
\* at once, with no wait after it, whatever budget remains
C8_RetryOnlyTransient ==
  pageFetch.pc # "idle" =>
    /\ \A k \in 1..(Len(pageStatuses) - 1) : pageStatuses[k] \in RetryableStatuses
    /\ pageFetch.pc = "backoff" =>
         pageStatuses[Len(pageStatuses)] \in RetryableStatuses
    /\ \A k \in 1..Len(pageStatuses) :
         pageStatuses[k] \notin RetryableStatuses \cup {HttpOk} =>
           /\ k = Len(pageStatuses)
           /\ pageFetch.pc = "thrown"
           /\ pageFetch.error = pageStatuses[k]
           /\ Len(pageFetch.waits) = k - 1
           /\ pageFetch.retries = MAX_RETRIES - (k - 1)

C8_Witness ==
  /\ pageStatuses = <<503, 500>>
  /\ pageFetch.pc = "thrown"
  /\ pageFetch.retries = 2

\* C9: the waits before the 1st, 2nd and 3rd retry of a call are
\* INITIAL_DELAY, 2 * INITIAL_DELAY and 4 * INITIAL_DELAY
C9_BackoffFromInitialDelay ==
  \A k \in 1..Len(pageFetch.waits) :
    pageFetch.waits[k] = INITIAL_DELAY * (CASE k = 1 -> 1 [] k = 2 -> 2 [] OTHER -> 4)

\* C10: no wait precedes the first attempt and exactly one wait lies between
\* two consecutive attempts, so k attempts come with k - 1 waits; 503, 503,
\* 200 is a success after 3 attempts and 2 waits
C10_OneWaitBetweenAttempts ==
  pageFetch.pc # "idle" =>
    /\ pageFetch.attempts = 0 => pageFetch.waits = <<>>
    /\ pageFetch.pc = "request" => Len(pageFetch.waits) = pageFetch.attempts
    /\ pageFetch.pc \in {"backoff", "returned", "thrown"} =>
         Len(pageFetch.waits) = pageFetch.attempts - 1
    /\ pageStatuses = <<503, 503, HttpOk>> =>
         /\ pageFetch.pc = "returned"
         /\ pageFetch.attempts = 3
         /\ Len(pageFetch.waits) = 2

C10_Witness == pageStatuses = <<503, 503, HttpOk>>

\* C11: processInBatches cuts the n items into ceil(n / c) chunks in input
\* order, every chunk of size c except possibly the last, and returns n
\* results with the result at a position being the one of the processor call
\* for the item at that position, in whatever order the calls of a chunk
\* are fulfilled
C11_ChunksInInputOrder ==
  batchRun.pc # "idle" =>
    LET n == Len(batchRun.items)
        c == batchRun.concurrency
    IN /\ \A j \in 1..Len(batchRun.chunks) :
            /\ batchRun.chunks[j] = ((j - 1) * c + 1)..Min(j * c, n)
            /\ batchRun.chunks[j] # {}
       /\ \A k \in 1..Len(batchRun.results) :
            batchRun.results[k] = Processor(batchRun.items[k], k - 1)
       /\ batchRun.pc = "returned" =>
            /\ Len(batchRun.chunks) = (n + c - 1) \div c
            /\ Len(batchRun.results) = n

\* 5 items by 2: chunks of 2, 2 and 1, the calls of the first two chunks
\* fulfilled last item first
C11_Witness ==
  /\ batchRun.pc = "returned"
  /\ Len(batchRun.items) = 5
  /\ batchRun.concurrency = 2
  /\ Len(batchRun.chunks) = 3
  /\ batchRun.completed = <<2, 1, 4, 3, 5>>

\* C12: at most concurrency detail workers, 5 as shipped, are in flight at
\* any moment, and a worker of a chunk is started only when every worker of
\* the chunks before it has completed
C12_BoundedInFlight ==
  LET inFlight == {k \in DOMAIN workers : workers[k].st = "running"}
      started == (1..Len(results)) \cup DOMAIN workers
  IN /\ Cardinality(inFlight) <= concurrency
     /\ concurrency <= CONCURRENT_REQUESTS
     /\ \A k \in DOMAIN workers :
          /\ k > Len(results)
          /\ k - Len(results) <= concurrency
          /\ \A j \in 1..(k - 1) : j \in started
     /\ detailRequests \subseteq {allListings[k] : k \in started}

\* one listing per chunk: the worker of the second chunk is in flight after
\* the first chunk has completed
C12_Witness ==
  /\ pc = "chunk"
  /\ concurrency = 1
  /\ Len(results) = 1
  /\ DOMAIN workers = {2}
  /\ workers[2].st = "running"

\* C13: avgPrice is the mean of the retained prices rounded to the nearest
\* integer, halves up, and minPrice and maxPrice are their minimum and
\* maximum; prices 10, 20, 30 give 10, 20, 30 and prices 1, 2 give avg 2
C13_MeanRoundedHalfUp ==
  (calc.pc = "returned" /\ calc.fn = "aggregate") =>
    LET given == [k \in 1..Len(calc.arg) |-> calc.arg[k].price]
        retained == SelectSeq(given, LAMBDA p : p # Null /\ p > 0)
        n == Len(retained)
        r == calc.out
    IN /\ n > 0 =>
            /\ r.minPrice \in Range(retained)
            /\ r.maxPrice \in Range(retained)
            /\ \A k \in 1..n :
                 r.minPrice <= retained[k] /\ retained[k] <= r.maxPrice
            /\ r.avgPrice % PriceScale = 0
            /\ 2 * n * r.avgPrice - n * PriceScale <= 2 * SeqSum(retained)
            /\ 2 * SeqSum(retained) < 2 * n * r.avgPrice + n * PriceScale
       /\ given = <<10 * PriceScale, 20 * PriceScale, 30 * PriceScale>> =>
            /\ r.minPrice = 10 * PriceScale
            /\ r.avgPrice = 20 * PriceScale
            /\ r.maxPrice = 30 * PriceScale
       /\ given = <<PriceScale, 2 * PriceScale>> => r.avgPrice = 2 * PriceScale

\* a mean that ends in one half: prices 1, null and 2
C13_Witness ==
  /\ calc.pc = "returned"
  /\ calc.fn = "aggregate"
  /\ Len(calc.arg) = 3
  /\ calc.arg[1].price = PriceScale
  /\ calc.arg[2].price = Null
  /\ calc.arg[3].price = 2 * PriceScale
  /\ calc.out.avgPrice = 2 * PriceScale

\* the text without its characters that are neither a digit nor a dot
Stripped(s) == SelectSeq(s, LAMBDA c : c \in Digits \cup {"."})

\* a decimal numeral: digits with at most one dot, at least one digit
IsDecimalNumeral(s) ==
  /\ \A k \in 1..Len(s) : s[k] \in Digits \cup {"."}
  /\ Cardinality({k \in 1..Len(s) : s[k] = "."}) <= 1
  /\ \E k \in 1..Len(s) : s[k] \in Digits

\* the number a decimal numeral denotes
NumeralValue(s) ==
  LET dots == {k \in 1..Len(s) : s[k] = "."}
      intLen == IF dots = {} THEN Len(s) ELSE (CHOOSE k \in dots : TRUE) - 1
      fracLen == IF dots = {} THEN 0 ELSE Len(s) - intLen - 1
  IN DigitsValue(s, 1, intLen) * PriceScale
     + (DigitsValue(s, intLen + 2, fracLen) * PriceScale) \div Pow10(fracLen)

\* C14: parsePrice returns null exactly when the text stripped of every
\* character that is neither a digit nor a dot is not a decimal numeral
\* (empty, dots only, or with two dots as "1.2.3"), and otherwise returns
\* the number the whole stripped text denotes
C14_ParsePriceWholeString ==
  (calc.pc = "returned" /\ calc.fn = "parsePrice") =>
    /\ calc.out = Null <=> ~IsDecimalNumeral(Stripped(calc.arg))
    /\ IsDecimalNumeral(Stripped(calc.arg)) =>
         calc.out = NumeralValue(Stripped(calc.arg))

\* the part of C14 that holds: on a text whose stripped form has at most
\* one dot, parsePrice is null exactly when there is no digit and otherwise
\* the number the whole stripped text denotes
ParsePriceAtMostOneDot ==
  (/\ calc.pc = "returned"
   /\ calc.fn = "parsePrice"
   /\ Cardinality({k \in 1..Len(calc.arg) : calc.arg[k] = "."}) <= 1) =>
    /\ calc.out = Null <=> ~IsDecimalNumeral(Stripped(calc.arg))
    /\ IsDecimalNumeral(Stripped(calc.arg)) =>
         calc.out = NumeralValue(Stripped(calc.arg))

\* the positions of the items of a list that have a positive price
Positive(items) ==
  {k \in 1..Len(items) : items[k].price # Null /\ items[k].price > 0}

\* the element at a 0-based index of the ascending list of the prices at
\* the positions P: the index lies between the number of prices below it
\* and the number of prices up to it
ElementAt(items, P, index) ==
  CHOOSE v \in {items[k].price : k \in P} :
    /\ Cardinality({k \in P : items[k].price < v}) <= index
    /\ index < Cardinality({k \in P : items[k].price <= v})

\* C15: detectOutliers looks at the items with a positive price only;
\* fewer than 4 of them give the empty set; n >= 4 of them give the items
\* whose price is < Q1 - 2 * IQR or > Q3 + 2 * IQR, Q1 and Q3 being the
\* elements at indexes floor(0.25 * n) and floor(0.75 * n) of the ascending
\* price list and IQR = Q3 - Q1
C15_OutliersByQuartiles ==
  (calc.pc = "returned" /\ calc.fn = "detectOutliers") =>
    LET items == calc.arg
        P == Positive(items)
        n == Cardinality(P)
    IN /\ calc.out \subseteq {items[k].link : k \in P}
       /\ n < 4 => calc.out = {}
       /\ n >= 4 =>
            LET Q1 == ElementAt(items, P, n \div 4)
                Q3 == ElementAt(items, P, (3 * n) \div 4)
                IQR == Q3 - Q1
            IN \A k \in P :
                 items[k].link \in calc.out <=>
                   \/ items[k].price < Q1 - 2 * IQR
                   \/ items[k].price > Q3 + 2 * IQR

\* prices 0, 1, 300, 300, 300: the item without a price is not looked at,
\* Q1 = Q3 = 300 and only the item of price 1 is flagged
C15_Witness ==
  /\ calc.pc = "returned"
  /\ calc.fn = "detectOutliers"
  /\ [k \in 1..Len(calc.arg) |-> calc.arg[k].price] =
       <<0, PriceScale, 300 * PriceScale, 300 * PriceScale, 300 * PriceScale>>
  /\ calc.out = {2}

\* the positions of the extreme values of a list: a price at least 100
\* times the median, or at most one hundredth of it
Extremes(items) ==
  LET P == Positive(items)
      median == ElementAt(items, P, Cardinality(P) \div 2)
  IN {k \in P : \/ items[k].price \div 100 >= median
                \/ items[k].price <= median \div 100}

\* the price at position k lies outside [Q1 - 2 * IQR, Q3 + 2 * IQR]
OutsideBounds(items, k) ==
  LET P == Positive(items)
      n == Cardinality(P)
      Q1 == ElementAt(items, P, n \div 4)
      Q3 == ElementAt(items, P, (3 * n) \div 4)
  IN \/ items[k].price < Q1 - 2 * (Q3 - Q1)
     \/ items[k].price > Q3 + 2 * (Q3 - Q1)

\* a call on n >= 4 positive-priced items with a single extreme value, which
\* lies outside the bounds, has returned
SingleExtremeOutside ==
  /\ calc.pc = "returned"
  /\ calc.fn = "detectOutliers"
  /\ Cardinality(Positive(calc.arg)) >= 4
  /\ Cardinality(Extremes(calc.arg)) = 1
  /\ \A e \in Extremes(calc.arg) : OutsideBounds(calc.arg, e)

\* C16: on n >= 4 positive-priced items with a single extreme value that
\* lies outside [Q1 - 2 * IQR, Q3 + 2 * IQR], detectOutliers returns exactly
\* the set of that item's identity
C16_OnlyTheExtremeFlagged ==
  SingleExtremeOutside =>
    calc.out = {calc.arg[e].link : e \in Extremes(calc.arg)}

\* C16, amended: on such a list the extreme item is flagged; any other item
\* that is flagged has its own price outside the bounds; and when the other
\* positive prices are all equal, exactly the extreme item is flagged
C16_ExtremeFlaggedAmongOutside ==
  SingleExtremeOutside =>
    LET items == calc.arg
        E == Extremes(items)
        others == Positive(items) \ E
    IN /\ {items[e].link : e \in E} \subseteq calc.out
       /\ \A k \in others :
            items[k].link \in calc.out => OutsideBounds(items, k)
       /\ (\A a, b \in others : items[a].price = items[b].price) =>
            calc.out = {items[e].link : e \in E}

\* prices 2, 2, 2, 2, 300: only the item of price 300 is flagged
C16_Witness ==
  /\ SingleExtremeOutside
  /\ [k \in 1..Len(calc.arg) |-> calc.arg[k].price] =
       <<2 * PriceScale, 2 * PriceScale, 2 * PriceScale, 2 * PriceScale,
         300 * PriceScale>>
  /\ calc.out = {5}

\* a toggle of the auto-exclude switch or of an item's exclusion leaves
\* data and the list shown in the table as they were
TogglesKeepItems ==
  (/\ app.pc = "mounted"
   /\ ~app'.loading
   /\ \/ app'.excludedItems # app.excludedItems
      \/ app'.autoExcludeOutliers # app.autoExcludeOutliers) =>
    /\ app'.data = app.data
    /\ filteredItems(app') = filteredItems(app)

\* the items used for the statistics are the items of the table that are
\* neither excluded nor flagged, and nothing is flagged with the switch off
StatsSubsetOnly ==
  (app.pc = "mounted" /\ app.data # NullData) =>
    LET shown == filteredItems(app)
        flagged == IF app.autoExcludeOutliers
                   THEN detectOutliers(app.data.items) ELSE {}
    IN /\ ~app.autoExcludeOutliers => detectedOutliers(app) = {}
       /\ detectedOutliers(app) = flagged
       /\ Range(shown) \subseteq Range(app.data.items)
       /\ Range(itemsForStats(app)) =
            {item \in Range(shown) :
               item.link \notin app.excludedItems \cup flagged}

\* C17: outlier flagging and manual exclusion never remove an item from the
\* item list: whatever the toggles of the auto-exclude switch and of the
\* exclusion of items, data.items and the filtered list shown in the table
\* do not change, only the subset used for the statistics does, and with the
\* switch off the outlier set is empty
C17_ExclusionKeepsItems == []StatsSubsetOnly /\ [][TogglesKeepItems]_vars

\* prices 1, 30, 30, 30: the switch is off, the item of price 1 is
\* shown and counted, another item is excluded by hand and still shown
C17_Witness ==
  /\ app.pc = "mounted"
  /\ app.data # NullData
  /\ Len(app.data.items) = 4
  /\ detectOutliers(app.data.items) = {1}
  /\ ~app.autoExcludeOutliers
  /\ app.excludedItems = {2}
  /\ Len(filteredItems(app)) = 4
  /\ Len(itemsForStats(app)) = 3

\* the pieces of a text: its maximal comma-free segments, each without the
\* spaces around it, the empty ones left out, in order
Segment(s, a, b) ==
  LET inner == {k \in (a + 1)..(b - 1) : s[k] # " "}
  IN IF inner = {} THEN <<>>
     ELSE SubSeq(s, CHOOSE k \in inner : \A j \in inner : k <= j,
                    CHOOSE k \in inner : \A j \in inner : k >= j)

Pieces(s) ==
  LET cuts == {0, Len(s) + 1} \cup {k \in 1..Len(s) : s[k] = ","}
      starts == {a \in cuts : a <= Len(s)
                              /\ Segment(s, a, CHOOSE b \in cuts :
                                   b > a /\ \A c \in cuts : c > a => b <= c) # <<>>}
      NextCut(a) == CHOOSE b \in cuts : b > a /\ \A c \in cuts : c > a => b <= c
      Nth(n) == CHOOSE a \in starts : Cardinality({c \in starts : c < a}) = n - 1
  IN [n \in 1..Cardinality(starts) |-> Segment(s, Nth(n), NextCut(Nth(n)))]

\* C18: the value stored for a full-row value text is a sequence exactly
\* when splitting on commas, trimming and dropping the empty pieces leaves
\* two or more pieces, and is then those pieces; otherwise it is the trimmed
\* text as a scalar; a stored sequence never has fewer than 2 elements nor
\* an empty piece
C18_FullRowValueShape ==
  (calc.pc = "returned" /\ calc.fn = "fullRow") =>
    LET s == calc.arg.text
        trimmedText == Segment(s, 0, Len(s) + 1)
    IN \A key \in DOMAIN calc.out :
         LET stored == calc.out[key]
         IN /\ stored.isArray <=> Len(Pieces(s)) >= 2
            /\ stored.isArray =>
                 /\ stored.values = Pieces(s)
                 /\ Len(stored.values) >= 2
                 /\ \A k \in 1..Len(stored.values) : stored.values[k] # <<>>
            /\ ~stored.isArray => stored.text = trimmedText

\* "a, b" is stored as the pieces "a" and "b"
C18_Witness ==
  /\ calc.pc = "returned"
  /\ calc.fn = "fullRow"
  /\ calc.arg.pass = "second"
  /\ calc.arg.text = <<"a", ",", " ", "b">>
  /\ DOMAIN calc.out = {"Interior Options"}
  /\ calc.out["Interior Options"].isArray
  /\ calc.out["Interior Options"].values = << <<"a">>, <<"b">> >>

\* the positions of the items of a results container that have a link and
\* lie before the first occurrence of the marker
ItemsBeforeMarker(body) ==
  {k \in 1..Len(body) :
     /\ body[k] \notin {NoLink, RecommendedMarker}
     /\ \A j \in 1..k : body[j] # RecommendedMarker}

\* C19: no item at or after the first occurrence of 'Recommended Listings'
\* in the results container is among the extracted listings, which are the
\* items with a link before it, in order, and hasRecommendedListings is
\* true exactly when the marker occurs in the container
C19_NothingAfterMarker ==
  (calc.pc = "returned" /\ calc.fn = "extractListingsFromPage") =>
    LET body == calc.arg.body
        kept == ItemsBeforeMarker(body)
        Nth(n) == CHOOSE k \in kept : Cardinality({j \in kept : j < k}) = n - 1
    IN /\ calc.out.hasRecommendedListings <=>
            \E k \in 1..Len(body) : body[k] = RecommendedMarker
       /\ Len(calc.out.listings) = Cardinality(kept)
       /\ \A n \in 1..Len(calc.out.listings) :
            calc.out.listings[n] = body[Nth(n)]

\* an item, the marker, another item and the marker again: only the first
\* item is extracted
C19_Witness ==
  /\ calc.pc = "returned"
  /\ calc.fn = "extractListingsFromPage"
  /\ calc.arg.body = <<1, RecommendedMarker, 2, RecommendedMarker>>
  /\ calc.out.listings = <<1>>
  /\ calc.out.hasRecommendedListings

\* C20: two runs interleaved in any way do not influence each other: the
\* accumulated listings, the dedup set and the result of each are those the
\* run gives when it is the only one, and a link one run has seen is never
\* dropped as a duplicate in the other
C20_RunsIndependent ==
  runs # NoRuns =>
    \A r \in RunIds :
      /\ runs[r].allListings = runs[r].alone.allListings
      /\ runs[r].seenLinks = runs[r].alone.seenLinks
      /\ runs[r].result = runs[r].aloneResult
      /\ Range(runs[r].allListings) = runs[r].extracted
      /\ runs[r].seenLinks = runs[r].extracted

\* both runs have returned the same listing, each with its own price
C20_Witness ==
  /\ runs # NoRuns
  /\ \A r \in RunIds : runs[r].pc = "returned" /\ runs[r].allListings = <<1>>
  /\ runs[1].result.totalItems = 1
  /\ runs[2].result.totalItems = 0

\* the urls that contain 'opensooq.com'
UrlsWithOpenSooq == PageUrls \cup {SchemelessUrl}

\* the answer to a request with one of these urls: a 400 and no run when
\* there is no url or it does not contain 'opensooq.com'; otherwise one run,
\* and its result with a 200, or a 500 that carries the cause when it fails
AnswersTo(urls) ==
  (calc.pc = "returned" /\ calc.fn = "postScrape" /\ calc.arg.url \in urls) =>
    LET url == calc.arg.url
        outcome == calc.arg.outcome
        sent == calc.out.response
    IN /\ sent.status \in {200, 400, 500}
       /\ (url = NoUrl \/ url \notin UrlsWithOpenSooq) =>
            /\ sent.status = 400
            /\ sent.error # ""
            /\ sent.result = NoResult
            /\ calc.out.runs = 0
       /\ (url # NoUrl /\ url \in UrlsWithOpenSooq) =>
            /\ calc.out.runs = 1
            /\ IF url \in PageUrls /\ ~outcome.threw
               THEN sent.status = 200 /\ sent.result = outcome.result
               ELSE /\ sent.status = 500
                    /\ sent.error = "Failed to scrape the URL"
                    /\ sent.result = NoResult
                    /\ sent.cause = IF url \in PageUrls THEN outcome.cause
                                    ELSE InvalidUrlError

\* C21: every POST /scrape request gets one response: a 400 and no run when
\* its url is missing or does not contain 'opensooq.com'; otherwise exactly
\* one run, and the run's result on success or a 500 with the cause's
\* message on failure
C21_OneResponsePerRequest == AnswersTo(RequestUrls)

\* the part of C21 that holds: the requests whose url is absent or a string
StringUrlsAnswered == AnswersTo(RequestUrls \ {NonStringUrl})

\* during the inter-page delay the url to fetch is the nextPageUrl of the
\* page just handled, which did not report the marker
DelayBeforeNextUrl ==
  pc = "pageDelay" =>
    /\ ~page.hasRecommendedListings
    /\ page.nextPageUrl # NoUrl
    /\ currentPageUrl = page.nextPageUrl
    /\ pageFetch.pc = "idle"

\* a handled page without the marker is followed by the delay when it has a
\* nextPageUrl and by the end of the loop when it has none; the delay is
\* followed by the fetch of that url; a page fetch starts only with the
\* request or after a delay
OneDelayThenNextUrl ==
  /\ (pc = "fetchPage" /\ pageFetch.pc = "returned"
      /\ ~page'.hasRecommendedListings) =>
       IF page'.nextPageUrl # NoUrl
       THEN pc' = "pageDelay" /\ currentPageUrl' = page'.nextPageUrl
       ELSE pc' = "callBatches" /\ pageFetch'.pc = "idle"
  /\ pc = "pageDelay" =>
       /\ pc' = "fetchPage"
       /\ currentPageUrl' = currentPageUrl
       /\ pageFetch' = NewFetch
  /\ (pc # "fetchPage" /\ pc' = "fetchPage") => pc \in {"start", "pageDelay"}

\* C22: after a page without the marker, a present nextPageUrl is the next
\* page fetched, after exactly one inter-page delay; an absent one ends the
\* loop with no further page fetch and no delay
C22_NextPageAfterOneDelay == []DelayBeforeNextUrl /\ [][OneDelayThenNextUrl]_vars

\* the delay before the second page, the first having given a listing
C22_Witness ==
  /\ pc = "pageDelay"
  /\ page.listings # <<>>
  /\ page.nextPageUrl = 2
  /\ currentPageUrl = 2

\* a result page fetch is in flight: requested, waiting for its backoff or
\* returned and not yet handled
PageFetchInFlight == pageFetch.pc \in {"request", "backoff", "returned"}

DetailPhase == pc \in {"batch", "chunk", "batchDelay"}

\* a result page fetch is in flight only inside the pagination loop, when no
\* detail page has been requested; detail pages are requested only after the
\* loop, when no result page fetch is left
PaginationThenDetails ==
  /\ PageFetchInFlight =>
       pc = "fetchPage" /\ detailRequests = {} /\ workers = NoWorkers
  /\ (detailRequests # {} \/ workers # NoWorkers) =>
       /\ pageFetch.pc = "idle"
       /\ DetailPhase \/ pc = "responded"
  /\ DetailPhase => pageFetch.pc = "idle"

\* a result page fetch starts only when the one before it is over; a detail
\* page is requested only at the head of a batch; the run never goes back
\* from the details to the pages
OneFetchAfterAnother ==
  /\ (pageFetch' = NewFetch /\ pageFetch # NewFetch) =>
       pageFetch.pc = "idle" /\ pc \in {"start", "pageDelay"}
  /\ detailRequests' # detailRequests =>
       pc = "batch" /\ pageFetch.pc = "idle" /\ pageFetch'.pc = "idle"
  /\ (DetailPhase \/ pc = "callBatches") => pc' # "fetchPage" /\ pc' # "pageDelay"

\* C23: pagination is sequential: one result page fetch at a time, retries
\* and backoff waits included, each over before the next starts, and no
\* detail page fetch before the pagination loop is done
C23_PaginationSequential == []PaginationThenDetails /\ [][OneFetchAfterAnother]_vars

\* the second page is being retried after a backoff, the first page has
\* given a listing and no detail page has been requested
C23_Witness ==
  /\ pc = "fetchPage"
  /\ pageFetch.pc = "request"
  /\ pageFetch.attempts > 0
  /\ allListings # <<>>
  /\ detailRequests = {}

\* the chain of next-page links that starts at url reaches a page with the
\* marker or without an enabled next-page control
RECURSIVE ChainEnds(_, _, _)
ChainEnds(s, url, visited) ==
  IF url \in visited THEN FALSE
  ELSE LET ex == extractListingsFromPage(s[url])
       IN IF ex.hasRecommendedListings \/ ex.nextPageUrl = NoUrl THEN TRUE
          ELSE ChainEnds(s, ex.nextPageUrl, visited \cup {url})

InLoop == pc \in {"fetchPage", "pageDelay"}
LoopDone == pc = "callBatches"
PageFetchFailed == pc = "responded" /\ pageFetch.pc = "thrown"
OnCycle == InLoop /\ ~ChainEnds(site, currentPageUrl, {})

\* the loop is done only after a page with the marker or without a next
\* page, and the listings accumulated hold no link twice
DoneAtChainEnd ==
  /\ LoopDone => page.hasRecommendedListings \/ page.nextPageUrl = NoUrl
  /\ Cardinality({allListings[k] : k \in 1..Len(allListings)}) = Len(allListings)
  /\ site # NoSite =>
       \A k \in 1..Len(allListings) :
         \E url \in PageUrls : allListings[k] \in Range(site[url].body)

\* on a cycle of pages without the marker the loop stays on the cycle
\* unless a page fetch fails, and a page all of whose links have been seen
\* adds nothing
StaysOnCycle ==
  /\ OnCycle =>
       \/ pc' = "responded" /\ pageFetch'.pc = "thrown"
       \/ /\ pc' \in {"fetchPage", "pageDelay"}
          /\ ~ChainEnds(site', currentPageUrl', {})
  /\ (OnCycle /\ pageFetch.pc = "returned"
      /\ \A k \in 1..Len(site[currentPageUrl].body) :
           site[currentPageUrl].body[k] \in seenLinks) =>
       allListings' = allListings

\* C24: every fetch attempt returning, the pagination loop is left when the
\* chain of next-page links reaches a page with the marker or without a
\* next page, or when a page fetch fails; on a cycle of pages without the
\* marker it is never done: the pages are fetched again and again, unless a
\* fetch fails, and the accumulated listings stop growing
C24_LoopEndsIffChainEnds ==
  /\ []DoneAtChainEnd
  /\ [][StaysOnCycle]_vars
  /\ (InLoop /\ ChainEnds(site, currentPageUrl, {})) ~> (LoopDone \/ PageFetchFailed)
  /\ (OnCycle /\ pc = "fetchPage") ~> (pc = "pageDelay" \/ PageFetchFailed)
  /\ (pc = "pageDelay") ~> (pc = "fetchPage" /\ pageFetch.pc = "request")

\* a page whose next-page link is the page itself has been fetched again,
\* its listing accumulated once already
C24_Witness ==
  /\ site # NoSite
  /\ site[1].next = 1
  /\ site[1].body = <<1>>
  /\ currentPageUrl = 1
  /\ pc = "fetchPage"
  /\ pageFetch.pc = "returned"
  /\ allListings = <<1>>

\* the number of chunks a list of n items is cut into
NumChunks(n, c) == (n + c - 1) \div c

\* the delays awaited so far follow the chunks started so far: one delay
\* between two chunks, awaited only while items are left
DelaysBetweenChunks ==
  batchRun.pc # "idle" =>
    LET n == Len(batchRun.items)
        k == Len(batchRun.chunks)
    IN /\ batchRun.pc = "await" => batchRun.delays = k - 1
       /\ batchRun.pc = "delay" =>
            batchRun.delays = k - 1 /\ k < NumChunks(n, batchRun.concurrency)
       /\ (batchRun.pc = "loop" /\ k > 0) =>
            batchRun.delays = IF batchRun.i < n THEN k ELSE k - 1
       /\ batchRun.pc = "returned" =>
            /\ k = NumChunks(n, batchRun.concurrency)
            /\ batchRun.delays = IF k = 0 THEN 0 ELSE k - 1
            /\ n = 0 => batchRun.completed = <<>> /\ batchRun.results = <<>>

\* a delay that is over is followed by another chunk
DelayThenChunk ==
  batchRun.pc = "delay" =>
    batchRun'.pc = "loop" /\ batchRun'.i < Len(batchRun.items)

\* C25: the delay between batches is awaited after a chunk exactly when
\* another chunk remains: k >= 1 chunks give k - 1 delays, none after the
\* last chunk, and an empty list gives none, with no processor call and an
\* empty output
C25_DelayBetweenChunksOnly == []DelaysBetweenChunks /\ [][DelayThenChunk]_vars

\* three chunks and two delays
C25_Witness ==
  /\ batchRun.pc = "returned"
  /\ Len(batchRun.chunks) = 3
  /\ batchRun.delays = 2

\* C26: the second pass only adds attributes whose label the first pass has
\* not stored: every entry of the first pass keeps its value, and the
\* second pass adds no entry labelled 'VIN Number'
C26_SecondPassOnlyAdds ==
  (calc.fn = "attributes" /\ calc.pc = "returned") =>
    /\ \A key \in DOMAIN calc.out.first :
         /\ key \in DOMAIN calc.out.attributes
         /\ calc.out.attributes[key] = calc.out.first[key]
    /\ "VIN Number" \in DOMAIN calc.out.attributes =>
         "VIN Number" \in DOMAIN calc.out.first

\* what does hold: the second pass removes no label and adds no 'VIN Number'
SecondPassKeepsLabels ==
  (calc.fn = "attributes" /\ calc.pc = "returned") =>
    /\ DOMAIN calc.out.first \subseteq DOMAIN calc.out.attributes
    /\ "VIN Number" \in DOMAIN calc.out.attributes =>
         /\ "VIN Number" \in DOMAIN calc.out.first
         /\ calc.out.attributes["VIN Number"] = calc.out.first["VIN Number"]

\* the three statistics of a server result
StatsOf(result) ==
  [minPrice |-> result.minPrice, maxPrice |-> result.maxPrice,
   avgPrice |-> result.avgPrice]

\* C27: with no filter, no manual exclusion and the outlier switch off the
\* client's statistics are the server's; in every state they are what the
\* server's rules give on the items left for the statistics
C27_ClientStatsAsServer ==
  (app.pc = "mounted" /\ app.data # NullData) =>
    /\ (app.filters = {} /\ app.excludedItems = {} /\ ~app.autoExcludeOutliers) =>
         priceStats(app) = StatsOf(app.data)
    /\ priceStats(app) = StatsOf(Aggregate(itemsForStats(app)))

\* prices 1 and 2, nothing filtered or excluded: the mean 1.5 is shown as 2
C27_Witness ==
  /\ app.pc = "mounted"
  /\ app.data # NullData
  /\ ~app.loading
  /\ Len(app.data.items) = 2
  /\ app.filters = {} /\ app.excludedItems = {} /\ ~app.autoExcludeOutliers
  /\ priceStats(app).minPrice = PriceScale
  /\ priceStats(app).avgPrice = 2 * PriceScale
  /\ app.data.avgPrice = 2 * PriceScale

\* the click on the button of the row of link, an item that the outlier
\* detection excludes and that is not excluded by hand, puts the item among
\* the items of the statistics
ClickIncludesOutlier(link) ==
  ( /\ app.pc = "mounted"
    /\ app.data # NullData
    /\ link \in detectedOutliers(app)
    /\ link \notin app.excludedItems
    /\ app' = [app EXCEPT !.excludedItems = @ \cup {link}] ) =>
  link \in {itemsForStats(app')[k].link : k \in 1..Len(itemsForStats(app'))}

\* C28: clicking the include/exclude button of an item that is auto-excluded
\* as an outlier, and not excluded by hand, includes it: after the click the
\* item is one of itemsForStats
C28_ClickIncludesOutlier ==
  [][\A link \in 1..MaxAppItems : ClickIncludesOutlier(link)]_vars

\* what the click does: the item is now excluded by hand as well, and stays
\* out of the statistics until the switch is off and it is clicked again
ClickExcludesOutlier ==
  [][\A link \in 1..MaxAppItems :
       ( /\ app.pc = "mounted"
         /\ app.data # NullData
         /\ link \in detectedOutliers(app)
         /\ link \notin app.excludedItems
         /\ app'.excludedItems # app.excludedItems
         /\ app'.data = app.data
         /\ link \in app'.excludedItems ) =>
       link \notin {itemsForStats(app')[k].link : k \in 1..Len(itemsForStats(app'))}]_vars

\* C29: every key of the attributes of a detail is a non-empty label:
\* neither pass stores a value under the empty string, full-row and
\* wide-value fields with a value and no label text included
C29_NoEmptyLabel ==
  (calc.fn = "attributes" /\ calc.pc \in {"secondPass", "returned"}) =>
    /\ "" \notin DOMAIN calc.out.first
    /\ "" \notin DOMAIN calc.out.attributes

\* what does hold: an empty label is stored only by the full-row branch of
\* the first pass, for an element with a value; the regular branch and the
\* second pass store none
EmptyLabelFromFirstPassFullRow ==
  (calc.fn = "attributes" /\ calc.pc = "returned") =>
    /\ "" \in DOMAIN calc.out.attributes <=>
         \E k \in 1..Len(calc.arg) :
           /\ calc.arg[k].kind \in {"fullRowField", "liField"}
           /\ calc.arg[k].key = ""
           /\ Trim(calc.arg[k].text) # <<>>
    /\ "" \in DOMAIN calc.out.attributes => "" \in DOMAIN calc.out.first

\* while a submit is pending nothing is shown and nothing is selected
PendingSubmit ==
  (app.pc = "mounted" /\ app.loading) =>
    /\ app.data = NullData
    /\ app.error = NullError
    /\ app.filters = {}
    /\ app.excludedItems = {}

\* the submit finishes with a result or with an error message, never both
\* and never neither, and they stay as they are until the next submit
SubmitFinishes ==
  app.pc = "mounted" =>
    /\ (app.loading /\ ~app'.loading) =>
         (app'.data # NullData) # (app'.error # NullError)
    /\ (~app.loading /\ ~app'.loading) =>
         app'.data = app.data /\ app'.error = app.error
    /\ (~app.loading /\ app'.loading) =>
         app'.data = NullData /\ app'.error = NullError

\* C30: whatever the outcome of a submit, while it is pending loading is
\* true, data and error are null and the filters and the manual exclusions
\* are empty; once it is over loading is false and exactly one of data and
\* error is not null
C30_SubmitStates == []PendingSubmit /\ [][SubmitFinishes]_vars

\* a submit has failed: the error message is shown and there is no result
C30_Witness ==
  /\ app.pc = "mounted"
  /\ ~app.loading
  /\ app.error = "Failed to scrape the URL"
  /\ app.data = NullData
  /\ app.filters = {}
  /\ app.excludedItems = {}

====
